---- MODULE Spec2Model ----
(***************************************************************************)
(* Model of the bridge swap orchestrator (BridgeService) of the movement   *)
(* repository: protocol-units/bridge/shared/src/bridge_service.rs.         *)
(*                                                                         *)
(* BridgeService is a Stream.  Each call of poll_next is one turn: it      *)
(* polls the two ActiveSwapMap trackers, then the event stream of          *)
(* blockchain 1, then the event stream of blockchain 2, and returns at     *)
(* most one item.  The trackers (module active_swap) and the blockchain    *)
(* services are collaborators of the orchestrator; they are modelled from  *)
(* the specification of their interface.                                   *)
(*                                                                         *)
(* The module also models RocksdbMempool of                                *)
(* protocol-units/mempool/move-rocks/src/lib.rs, a store of transactions   *)
(* that is independent of the orchestrator, alone and shared by concurrent *)
(* tasks; the tasks of SuzukaPartialNode                                   *)
(* (networks/suzuka/suzuka-full-node/src/partial.rs); the counter of       *)
(* transactions in flight of the Executor                                  *)
(* (protocol-units/execution/opt-executor/src/executor/mod.rs); and the    *)
(* load and soak test runner (networks/suzuka/load-soak-testing).  Each    *)
(* component has its own variables and its own specification, and leaves   *)
(* the variables of the others alone.                                      *)
(***************************************************************************)
EXTENDS Integers, Sequences, FiniteSets, TLC

VARIABLES
    active_swaps_b1_to_b2,  \* ActiveSwapMap<B1, B2>: registry and calls in flight
    active_swaps_b2_to_b1,  \* ActiveSwapMap<B2, B1>
    blockchain_1,           \* event stream of chain 1: ready events, emitted count, ended
    blockchain_2,           \* event stream of chain 2
    emitted,                \* number of events so far: contract events and terminations of
                            \* the chains' streams, tracker operations of the owner
    turn,                   \* the last call of poll_next: what it polled, did and returned
    panicked,               \* a todo!() was reached: the task has unwound
    mempool,                \* RocksdbMempool: the column families of its db
    mempool_call,           \* the last operation called on the mempool, with its result
    tasks,                  \* concurrent callers of the mempool: operation, position, locals
    added,                  \* the transactions the concurrent callers' mempool was given
    adding,                 \* calls of add_mempool_transaction between their two puts
    da_stream,              \* stream_read_from_height: blobs ready, blobs so far, ended
    read_blocks,            \* read_blocks_from_da: position and return value
    read_blocks_await,      \* the call read_blocks_from_da is suspended in, and its blob
    block_calls,            \* calls that have returned to read_blocks_from_da, in order
    transaction_channel,    \* the channel of the node: transactions waiting, sent so far
    da_writes,              \* batch_write requests made to the light node, with results
    tick_task,              \* the tick_write_transactions_to_da in progress: where it is
                            \* suspended, what it has received, its Vec of blobs
    tick,                   \* the last tick that has returned: received, returned
    light_node_client,      \* the RwLock of the light node client: who holds its write
                            \* guard or has been granted it
    commitment_events,      \* CommitmentEventStream: items ready, items so far, ended
    finalized_block_height, \* the executor's finalized block height
    commitment_task,        \* read_commitment_events: position and return value
    transactions_in_flight, \* Executor: the AtomicU64 counter
    decrements,             \* concurrent calls of decrement_transactions_in_flight
    applied,                \* the updates of the counter that have taken effect, in order
    test                    \* execute_test: its configuration, its clients, its result

bridgeVars == <<active_swaps_b1_to_b2, active_swaps_b2_to_b1, blockchain_1, blockchain_2,
                emitted, turn, panicked>>

mempoolVars == <<mempool, mempool_call>>

raceVars == <<tasks, added, adding>>

daReadVars == <<da_stream, read_blocks, read_blocks_await, block_calls>>

daWriteVars == <<transaction_channel, da_writes, tick_task, tick>>

commitmentVars == <<commitment_events, finalized_block_height, commitment_task>>

executorVars == <<daReadVars, daWriteVars, light_node_client>>

nodeVars == <<executorVars, commitmentVars>>

counterVars == <<transactions_in_flight, decrements, applied>>

testVars == <<test>>

vars == <<bridgeVars, mempoolVars, raceVars, nodeVars, counterVars, testVars>>

\* What the actions of one component leave alone.
notBridgeVars == <<mempoolVars, raceVars, nodeVars, counterVars, testVars>>

notMempoolVars == <<bridgeVars, raceVars, nodeVars, counterVars, testVars>>

notRaceVars == <<bridgeVars, mempool_call, nodeVars, counterVars, testVars>>

notExecutorVars ==
    <<bridgeVars, mempoolVars, raceVars, commitmentVars, counterVars, testVars>>

notCommitmentVars ==
    <<bridgeVars, mempoolVars, raceVars, executorVars, counterVars, testVars>>

notCounterVars == <<bridgeVars, mempoolVars, raceVars, nodeVars, testVars>>

notTestVars == <<bridgeVars, mempoolVars, raceVars, nodeVars, counterVars>>

(***************************************************************************)
(* Bounds of the model.                                                    *)
(***************************************************************************)
\* Number of events of one run: the contract events the two chains emit,
\* the terminations of their streams and the tracker operations the owner
\* of the service calls, all together.
MaxEvents == 3
\* Attempts a tracker makes for one contract call before it gives up.
MaxAttempts == 2

(***************************************************************************)
(* Data: transfer ids, swap details and contract events.                   *)
(***************************************************************************)
BridgeTransferIds == {"T1", "T2"}

Secrets == {"S1", "S2"}

\* Hash-lock and amount of an initiated transfer.
LockTerms == {[hash_lock |-> "H1", amount |-> 100], [hash_lock |-> "H2", amount |-> 200]}

BridgeTransferDetails ==
    {[bridge_transfer_id |-> x, hash_lock |-> v.hash_lock, amount |-> v.amount] :
        x \in BridgeTransferIds, v \in LockTerms}

LockDetails == {[bridge_transfer_id |-> x] : x \in BridgeTransferIds}

CompletedDetails ==
    {[bridge_transfer_id |-> x, secret |-> s] : x \in BridgeTransferIds, s \in Secrets}

Initiated(details) == [contract |-> "Initiator", kind |-> "Initiated", details |-> details]

InitiatorCompleted(id) ==
    [contract |-> "Initiator", kind |-> "Completed", details |-> [bridge_transfer_id |-> id]]

Refunded(id) ==
    [contract |-> "Initiator", kind |-> "Refunded", details |-> [bridge_transfer_id |-> id]]

Locked(details) == [contract |-> "Counterparty", kind |-> "Locked", details |-> details]

Completed(details) == [contract |-> "Counterparty", kind |-> "Completed", details |-> details]

BridgeContractInitiatorEvent ==
    {Initiated(d) : d \in BridgeTransferDetails}
        \cup {InitiatorCompleted(x) : x \in BridgeTransferIds}
        \cup {Refunded(x) : x \in BridgeTransferIds}

BridgeContractCounterpartyEvent ==
    {Locked(d) : d \in LockDetails} \cup {Completed(d) : d \in CompletedDetails}

ContractEvent == BridgeContractInitiatorEvent \cup BridgeContractCounterpartyEvent

\* The events chain 1 emits: every initiator event, and one counterparty
\* event of each kind (poll_next matches them with CounterpartyEvent(_)).
Blockchain1Events ==
    BridgeContractInitiatorEvent
        \cup {Locked([bridge_transfer_id |-> "T1"]),
              Completed([bridge_transfer_id |-> "T1", secret |-> "S1"])}

\* The events chain 2 emits: every counterparty event, and one initiator
\* event of each kind (poll_next matches them with InitiatorEvent(_)).
Blockchain2Events ==
    BridgeContractCounterpartyEvent
        \cup {Initiated([bridge_transfer_id |-> "T1", hash_lock |-> "H1", amount |-> 100]),
              InitiatorCompleted("T1"), Refunded("T1")}

(***************************************************************************)
(* Poll results of a stream.                                               *)
(***************************************************************************)
Ready(item) == [poll |-> "Ready", item |-> item]

ReadyNone == [poll |-> "ReadyNone"]

Pending == [poll |-> "Pending"]

NotPolled == [poll |-> "NotPolled"]

Panic == [poll |-> "Panic"]

RemoveAt(s, i) == SubSeq(s, 1, i - 1) \o SubSeq(s, i + 1, Len(s))

(***************************************************************************)
(* ActiveSwapMap, the tracker of one direction.                            *)
(***************************************************************************)
\* ActiveSwapMap::build(initiator contract of the source chain,
\*                      counterparty contract of the destination chain)
ActiveSwapMapBuild(initiator_chain, counterparty_chain) ==
    [initiator_contract |-> initiator_chain,
     counterparty_contract |-> counterparty_chain,
     swaps |-> <<>>,
     calls |-> <<>>,
     ended |-> FALSE]

\* The entries of a tracker: the details it tracks, in registration order.
Registry(map) == [i \in DOMAIN map.swaps |-> map.swaps[i].details]

EntriesFor(map, id) ==
    {i \in DOMAIN map.swaps : map.swaps[i].details.bridge_transfer_id = id}

already_executing(map, id) == EntriesFor(map, id) # {}

LockCall(map, details) ==
    [chain |-> map.counterparty_contract,
     op |-> "lock_bridge_transfer_assets",
     bridge_transfer_id |-> details.bridge_transfer_id,
     hash_lock |-> details.hash_lock,
     amount |-> details.amount,
     attempts |-> 0]

CompleteCall(map, details) ==
    [chain |-> map.initiator_contract,
     op |-> "complete_bridge_transfer",
     bridge_transfer_id |-> details.bridge_transfer_id,
     secret |-> details.secret,
     attempts |-> 0]

\* Variant of start_bridge_transfer that dispatches the lock call without
\* inserting the entry.
start_bridge_transfer_NoInsert(map, details) ==
    [map EXCEPT !.calls = Append(@, LockCall(map, details))]

start_bridge_transfer(map, details) ==
    [map EXCEPT !.swaps = Append(@, [details |-> details, state |-> "Locking"]),
                !.calls = Append(@, LockCall(map, details))]

\* Variant of complete_bridge_transfer that dispatches the claim call
\* whether or not the swap is tracked.
complete_bridge_transfer_Unchecked(map, details) ==
    [result |-> "Ok",
     map |-> [map EXCEPT !.swaps = SelectSeq(@, LAMBDA e : e.details.bridge_transfer_id
                                                            # details.bridge_transfer_id),
                         !.calls = Append(@, CompleteCall(map, details))]]

\* Variant of complete_bridge_transfer that dispatches the claim call of a
\* tracked swap and keeps the entry.
complete_bridge_transfer_KeepsEntry(map, details) ==
    IF ~already_executing(map, details.bridge_transfer_id)
    THEN [result |-> "NonExistingSwap", map |-> map]
    ELSE [result |-> "Ok",
          map |-> [map EXCEPT !.calls = Append(@, CompleteCall(map, details))]]

complete_bridge_transfer(map, details) ==
    IF ~already_executing(map, details.bridge_transfer_id)
    THEN [result |-> "NonExistingSwap", map |-> map]
    ELSE LET i == CHOOSE j \in EntriesFor(map, details.bridge_transfer_id) :
                      \A k \in EntriesFor(map, details.bridge_transfer_id) : j <= k
         IN [result |-> "Ok",
             map |-> [map EXCEPT !.swaps = RemoveAt(@, i),
                                 !.calls = Append(@, CompleteCall(map, details))]]

\* Progress events of a tracker.
BridgeAssetsLocked(id) == [event |-> "BridgeAssetsLocked", bridge_transfer_id |-> id]

BridgeAssetsLockingError(id) ==
    [event |-> "BridgeAssetsLockingError", bridge_transfer_id |-> id]

BridgeAssetsCompleted(id) == [event |-> "BridgeAssetsCompleted", bridge_transfer_id |-> id]

BridgeAssetsCompletingError(id) ==
    [event |-> "BridgeAssetsCompletingError", bridge_transfer_id |-> id]

MarkLocked(swaps, id) ==
    [i \in DOMAIN swaps |->
        IF swaps[i].details.bridge_transfer_id = id
        THEN [swaps[i] EXCEPT !.state = "Locked"]
        ELSE swaps[i]]

\* The call at position i has succeeded on its chain.
CallSucceeded(map, i) ==
    LET c == map.calls[i] IN
    IF c.op = "lock_bridge_transfer_assets"
    THEN [poll |-> Ready(BridgeAssetsLocked(c.bridge_transfer_id)),
          map |-> [map EXCEPT !.calls = RemoveAt(@, i),
                              !.swaps = MarkLocked(@, c.bridge_transfer_id)]]
    ELSE [poll |-> Ready(BridgeAssetsCompleted(c.bridge_transfer_id)),
          map |-> [map EXCEPT !.calls = RemoveAt(@, i)]]

\* Variant of CallFailed that tries a failed call again without limit and
\* never reports the error.
CallFailed_RetriesForever(map, i) ==
    [poll |-> Pending, map |-> [map EXCEPT !.calls[i].attempts = @ + 1]]

\* The call at position i has failed: it is tried again until MaxAttempts
\* attempts have failed, and then the error is reported.
CallFailed(map, i) ==
    LET c == map.calls[i] IN
    IF c.attempts + 1 < MaxAttempts
    THEN [poll |-> Pending, map |-> [map EXCEPT !.calls[i].attempts = @ + 1]]
    ELSE [poll |-> Ready(IF c.op = "lock_bridge_transfer_assets"
                          THEN BridgeAssetsLockingError(c.bridge_transfer_id)
                          ELSE BridgeAssetsCompletingError(c.bridge_transfer_id)),
          map |-> [map EXCEPT !.calls = RemoveAt(@, i)]]

\* ActiveSwapMap's own poll_next: what one poll of the progress sequence can
\* return, with the tracker as the poll leaves it.  A progress sequence that
\* has terminated returns end-of-stream and reports nothing more.
ActiveSwapMapPoll(map) ==
    IF map.ended
    THEN {[poll |-> ReadyNone, map |-> map]}
    ELSE {[poll |-> Pending, map |-> map]}
             \cup {CallSucceeded(map, i) : i \in DOMAIN map.calls}
             \cup {CallFailed(map, i) : i \in DOMAIN map.calls}

(***************************************************************************)
(* BlockchainService, the event stream of one chain.                       *)
(***************************************************************************)
BlockchainServiceNew == [queue |-> <<>>, ended |-> FALSE]

\* Variant of BlockchainPoll that hands out the first ready event without
\* taking it off the stream.
BlockchainPoll_Peek(b) ==
    IF b.queue # <<>>
    THEN [poll |-> Ready(Head(b.queue)), service |-> b]
    ELSE IF b.ended
         THEN [poll |-> ReadyNone, service |-> b]
         ELSE [poll |-> Pending, service |-> b]

BlockchainPoll(b) ==
    IF b.queue # <<>>
    THEN [poll |-> Ready(Head(b.queue)), service |-> [b EXCEPT !.queue = Tail(@)]]
    ELSE IF b.ended
         THEN [poll |-> ReadyNone, service |-> b]
         ELSE [poll |-> Pending, service |-> b]

(***************************************************************************)
(* Items of the orchestrator's output.                                     *)
(***************************************************************************)
B1I_ContractEvent(ev) == [tag |-> "B1I", variant |-> "ContractEvent", payload |-> ev]

B1I_Warn_AlreadyPresent(details) ==
    [tag |-> "B1I", variant |-> "Warn", warn |-> "AlreadyPresent", payload |-> details]

B2C_ContractEvent(ev) == [tag |-> "B2C", variant |-> "ContractEvent", payload |-> ev]

B2C_Warn_CannotCompleteUnexistingSwap(details) ==
    [tag |-> "B2C", variant |-> "Warn", warn |-> "CannotCompleteUnexistingSwap",
     payload |-> details]

(***************************************************************************)
(* BridgeService::poll_next.  A frame carries the turn through the four    *)
(* polls: the trackers and streams as the turn has left them so far, what  *)
(* each source returned, the tracker operations called, the contract calls *)
(* they dispatched, and the value poll_next returns (ret), NotPolled while *)
(* no return has been reached.                                             *)
(***************************************************************************)
\* BridgeService::new
BridgeServiceNew ==
    [active_swaps_b1_to_b2 |-> ActiveSwapMapBuild(1, 2),
     active_swaps_b2_to_b1 |-> ActiveSwapMapBuild(2, 1),
     blockchain_1 |-> BlockchainServiceNew,
     blockchain_2 |-> BlockchainServiceNew]

\* Before the first call of poll_next.
NoTurn ==
    [ret |-> NotPolled, t12 |-> NotPolled, t21 |-> NotPolled,
     c1 |-> NotPolled, c2 |-> NotPolled, ops |-> <<>>, calls |-> <<>>,
     pre12 |-> <<>>, pre21 |-> <<>>]

TrackerOp(op, tracker, id, result) ==
    [op |-> op, tracker |-> tracker, bridge_transfer_id |-> id, result |-> result]

\* The calls a tracker operation has added to the tracker's calls in flight.
Dispatched(before, after) == SubSeq(after.calls, Len(before.calls) + 1, Len(after.calls))

Returned(f) == f.ret.poll # "NotPolled"

\* Variant of HandleActiveSwapsB1ToB2 whose Poll::Ready(None) arm returns
\* end-of-stream from poll_next.
HandleActiveSwapsB1ToB2_EndsWithTracker(f, p) ==
    IF p.poll.poll = "ReadyNone"
    THEN [f EXCEPT !.a12 = p.map, !.t12 = p.poll, !.ret = ReadyNone]
    ELSE [f EXCEPT !.a12 = p.map, !.t12 = p.poll]

\* match this.active_swaps_b1_to_b2.poll_next_unpin(cx): every arm only traces.
HandleActiveSwapsB1ToB2(f, p) == [f EXCEPT !.a12 = p.map, !.t12 = p.poll]

\* match this.active_swaps_b2_to_b1.poll_next_unpin(cx): the arms of
\* BridgeAssetsCompleted and BridgeAssetsCompletingError are todo!().
HandleActiveSwapsB2ToB1(f, p) ==
    LET g == [f EXCEPT !.a21 = p.map, !.t21 = p.poll] IN
    IF /\ p.poll.poll = "Ready"
       /\ p.poll.item.event \in {"BridgeAssetsCompleted", "BridgeAssetsCompletingError"}
    THEN [g EXCEPT !.ret = Panic]
    ELSE g

\* Variant of OnInitiated without the already_executing check: every
\* Initiated event is registered.
OnInitiated_Unguarded(f, initiator_event) ==
    LET details == initiator_event.details
        id == details.bridge_transfer_id
        started == start_bridge_transfer(f.a12, details)
    IN [f EXCEPT !.ops = Append(@, TrackerOp("start_bridge_transfer", "b1_to_b2", id, "()")),
                 !.calls = @ \o Dispatched(f.a12, started),
                 !.a12 = started,
                 !.ret = Ready(B1I_ContractEvent(initiator_event))]

\* Variant of OnInitiated that emits the event of an untracked transfer
\* without registering it.
OnInitiated_NotRegistered(f, initiator_event) ==
    LET details == initiator_event.details
        id == details.bridge_transfer_id
    IN IF already_executing(f.a12, id)
       THEN [f EXCEPT !.ops = Append(@, TrackerOp("already_executing", "b1_to_b2", id, "true")),
                      !.ret = Ready(B1I_Warn_AlreadyPresent(details))]
       ELSE [f EXCEPT !.ops = Append(@, TrackerOp("already_executing", "b1_to_b2", id, "false")),
                      !.ret = Ready(B1I_ContractEvent(initiator_event))]

\* Variant of OnInitiated that registers a new transfer with the trackers of
\* both directions.
OnInitiated_BothDirections(f, initiator_event) ==
    LET details == initiator_event.details
        id == details.bridge_transfer_id
    IN IF already_executing(f.a12, id)
       THEN [f EXCEPT !.ops = Append(@, TrackerOp("already_executing", "b1_to_b2", id, "true")),
                      !.ret = Ready(B1I_Warn_AlreadyPresent(details))]
       ELSE LET started == start_bridge_transfer(f.a12, details) IN
            [f EXCEPT !.ops = @ \o <<TrackerOp("already_executing", "b1_to_b2", id, "false"),
                                     TrackerOp("start_bridge_transfer", "b1_to_b2", id, "()")>>,
                      !.calls = @ \o Dispatched(f.a12, started),
                      !.a12 = started,
                      !.a21 = start_bridge_transfer(f.a21, details),
                      !.ret = Ready(B1I_ContractEvent(initiator_event))]

\* Variant of OnInitiated that also answers AlreadyPresent for a transfer
\* whose claim call is in flight.
OnInitiated_RemembersClaimed(f, initiator_event) ==
    LET details == initiator_event.details
        id == details.bridge_transfer_id
        claimed == \E i \in DOMAIN f.a12.calls :
                      /\ f.a12.calls[i].op = "complete_bridge_transfer"
                      /\ f.a12.calls[i].bridge_transfer_id = id
    IN IF already_executing(f.a12, id) \/ claimed
       THEN [f EXCEPT !.ops = Append(@, TrackerOp("already_executing", "b1_to_b2", id, "true")),
                      !.ret = Ready(B1I_Warn_AlreadyPresent(details))]
       ELSE LET started == start_bridge_transfer(f.a12, details) IN
            [f EXCEPT !.ops = @ \o <<TrackerOp("already_executing", "b1_to_b2", id, "false"),
                                     TrackerOp("start_bridge_transfer", "b1_to_b2", id, "()")>>,
                      !.calls = @ \o Dispatched(f.a12, started),
                      !.a12 = started,
                      !.ret = Ready(B1I_ContractEvent(initiator_event))]

\* BridgeContractInitiatorEvent::Initiated(ref details) on blockchain 1.
OnInitiated(f, initiator_event) ==
    LET details == initiator_event.details
        id == details.bridge_transfer_id
    IN IF already_executing(f.a12, id)
       THEN [f EXCEPT !.ops = Append(@, TrackerOp("already_executing", "b1_to_b2", id, "true")),
                      !.ret = Ready(B1I_Warn_AlreadyPresent(details))]
       ELSE LET started == start_bridge_transfer(f.a12, details) IN
            [f EXCEPT !.ops = @ \o <<TrackerOp("already_executing", "b1_to_b2", id, "false"),
                                     TrackerOp("start_bridge_transfer", "b1_to_b2", id, "()")>>,
                      !.calls = @ \o Dispatched(f.a12, started),
                      !.a12 = started,
                      !.ret = Ready(B1I_ContractEvent(initiator_event))]

\* Variant of OnInitiatorCompleted that treats the event as the end of the
\* swap and drops the tracked entry.
OnInitiatorCompleted_Completes(f, initiator_event) ==
    LET id == initiator_event.details.bridge_transfer_id IN
    [f EXCEPT !.a12.swaps = SelectSeq(@, LAMBDA e : e.details.bridge_transfer_id # id),
              !.ret = Ready(B1I_ContractEvent(initiator_event))]

\* BridgeContractInitiatorEvent::Completed(_) on blockchain 1.
OnInitiatorCompleted(f, initiator_event) ==
    [f EXCEPT !.ret = Ready(B1I_ContractEvent(initiator_event))]

\* BridgeContractInitiatorEvent::Refunded(_) => todo!()
OnRefunded(f, initiator_event) == [f EXCEPT !.ret = Panic]

\* Variant of OnCounterpartyEventB1 that forwards the event as an item.
OnCounterpartyEventB1_Forwards(f, event) ==
    [f EXCEPT !.ret = Ready(B2C_ContractEvent(event))]

\* ContractEvent::CounterpartyEvent(_) on blockchain 1: traced only.
OnCounterpartyEventB1(f, event) == f

\* Variant of PollBlockchain1 that ends the orchestrator's stream when the
\* stream of chain 1 has ended.
PollBlockchain1_EndsWithChain(f) ==
    LET p == BlockchainPoll(f.b1)
        g == [f EXCEPT !.b1 = p.service, !.c1 = p.poll]
    IN IF p.poll.poll = "ReadyNone"
       THEN [g EXCEPT !.ret = ReadyNone]
       ELSE IF p.poll.poll # "Ready"
       THEN g
       ELSE LET event == p.poll.item IN
            IF event.contract = "Initiator"
            THEN CASE event.kind = "Initiated" -> OnInitiated(g, event)
                   [] event.kind = "Completed" -> OnInitiatorCompleted(g, event)
                   [] event.kind = "Refunded" -> OnRefunded(g, event)
            ELSE OnCounterpartyEventB1(g, event)

\* match this.blockchain_1.poll_next_unpin(cx)
PollBlockchain1(f) ==
    LET p == BlockchainPoll(f.b1)
        g == [f EXCEPT !.b1 = p.service, !.c1 = p.poll]
    IN IF p.poll.poll # "Ready"
       THEN g
       ELSE LET event == p.poll.item IN
            IF event.contract = "Initiator"
            THEN CASE event.kind = "Initiated" -> OnInitiated(g, event)
                   [] event.kind = "Completed" -> OnInitiatorCompleted(g, event)
                   [] event.kind = "Refunded" -> OnRefunded(g, event)
            ELSE OnCounterpartyEventB1(g, event)

\* Variant of OnInitiatorEventB2 that starts the transfer of an Initiated
\* event of chain 2 in the B2->B1 tracker.
OnInitiatorEventB2_Starts(f, event) ==
    IF event.kind # "Initiated"
    THEN f
    ELSE LET started == start_bridge_transfer(f.a21, event.details) IN
         [f EXCEPT !.ops = Append(@, TrackerOp("start_bridge_transfer", "b2_to_b1",
                                               event.details.bridge_transfer_id, "()")),
                   !.calls = @ \o Dispatched(f.a21, started),
                   !.a21 = started]

\* ContractEvent::InitiatorEvent(_) on blockchain 2: traced only.
OnInitiatorEventB2(f, event) == f

\* Variant of OnLocked that tags the item as an initiator item of chain 1.
OnLocked_TaggedB1I(f, event) == [f EXCEPT !.ret = Ready(B1I_ContractEvent(event))]

\* Variant of OnLocked that only traces the event.
OnLocked_TraceOnly(f, event) == f

\* Variant of OnLocked that treats the lock confirmation as the end of the
\* swap and drops the tracked entry.
OnLocked_Untracks(f, event) ==
    LET id == event.details.bridge_transfer_id IN
    [f EXCEPT !.a12.swaps = SelectSeq(@, LAMBDA e : e.details.bridge_transfer_id # id),
              !.ret = Ready(B2C_ContractEvent(event))]

\* BridgeContractCounterpartyEvent::Locked(ref _details) on blockchain 2.
OnLocked(f, event) == [f EXCEPT !.ret = Ready(B2C_ContractEvent(event))]

\* Variant of OnCounterpartyCompleted that forwards the event without
\* calling complete_bridge_transfer.
OnCounterpartyCompleted_ForwardOnly(f, event) ==
    [f EXCEPT !.ret = Ready(B2C_ContractEvent(event))]

\* BridgeContractCounterpartyEvent::Completed(ref details) on blockchain 2.
OnCounterpartyCompleted(f, event) ==
    LET details == event.details
        id == details.bridge_transfer_id
        done == complete_bridge_transfer(f.a12, details)
    IN IF done.result = "Ok"
       THEN [f EXCEPT !.ops = Append(@, TrackerOp("complete_bridge_transfer", "b1_to_b2", id, "Ok")),
                      !.calls = @ \o Dispatched(f.a12, done.map),
                      !.a12 = done.map,
                      !.ret = Ready(B2C_ContractEvent(event))]
       ELSE [f EXCEPT !.ops = Append(@, TrackerOp("complete_bridge_transfer", "b1_to_b2", id,
                                                  done.result)),
                      !.calls = @ \o Dispatched(f.a12, done.map),
                      !.a12 = done.map,
                      !.ret = Ready(B2C_Warn_CannotCompleteUnexistingSwap(details))]

\* match this.blockchain_2.poll_next_unpin(cx)
PollBlockchain2(f) ==
    LET p == BlockchainPoll(f.b2)
        g == [f EXCEPT !.b2 = p.service, !.c2 = p.poll]
    IN IF p.poll.poll # "Ready"
       THEN g
       ELSE LET event == p.poll.item IN
            IF event.contract = "Initiator"
            THEN OnInitiatorEventB2(g, event)
            ELSE CASE event.kind = "Locked" -> OnLocked(g, event)
                   [] event.kind = "Completed" -> OnCounterpartyCompleted(g, event)

\* One call of poll_next, given what the two trackers' polls return: the
\* four polls in the order of the code, each run only when no earlier one has
\* returned or panicked, and Poll::Pending when none of them has returned.
\* (Each step maps the set holding the one frame of the turn.)
poll_next(this, p12, p21) ==
    LET f0 == [a12 |-> this.active_swaps_b1_to_b2,
               a21 |-> this.active_swaps_b2_to_b1,
               b1 |-> this.blockchain_1,
               b2 |-> this.blockchain_2,
               ret |-> NotPolled, t12 |-> NotPolled, t21 |-> NotPolled,
               c1 |-> NotPolled, c2 |-> NotPolled, ops |-> <<>>, calls |-> <<>>]
        s1 == {HandleActiveSwapsB1ToB2(f, p12) : f \in {f0}}
        s2 == {IF Returned(f) THEN f ELSE HandleActiveSwapsB2ToB1(f, p21) : f \in s1}
        s3 == {IF Returned(f) THEN f ELSE PollBlockchain1(f) : f \in s2}
        s4 == {IF Returned(f) THEN f ELSE PollBlockchain2(f) : f \in s3}
        s5 == {IF Returned(f) THEN f ELSE [f EXCEPT !.ret = Pending] : f \in s4}
    IN CHOOSE r \in s5 : TRUE

(***************************************************************************)
(* RocksdbMempool.  A column family is a function from keys to values, a   *)
(* key is a sequence of bytes, and the column family is iterated in the    *)
(* bytewise order of its keys.                                             *)
(***************************************************************************)
\* Largest n of pop_mempool_transactions(n).
MaxPop == 3

\* Width of the zero-padded numbers of a key: "{:032}".
KeyWidth == 32

Timestamps == {2, 10}

TransactionData == {1, 2}

SequenceNumbers == {0, 1}

\* Transaction::new(data, sequence_number)
Transaction == [data : TransactionData, sequence_number : SequenceNumbers]

\* MempoolTransaction::at_time(transaction, timestamp)
MempoolTransaction == [transaction : Transaction, timestamp : Timestamps]

\* Transaction::id(): the bytes that identify the content of a transaction.
TransactionId(transaction) == <<transaction.data, transaction.sequence_number>>

Ids == {TransactionId(t) : t \in Transaction}

\* Display of an Id: one character for each of its bytes.
IdToString(id) == [i \in DOMAIN id |-> 97 + id[i]]

\* Display of an unsigned number: its decimal digits, as character codes.
RECURSIVE Decimal(_)
Decimal(n) == IF n < 10 THEN <<48 + n>> ELSE Append(Decimal(n \div 10), 48 + (n % 10))

\* "{:0w}": zeros in front up to width w; a longer string is left as it is.
ZeroPad(digits, w) ==
    IF Len(digits) >= w THEN digits ELSE [i \in 1..(w - Len(digits)) |-> 48] \o digits

\* Variant of construct_mempool_transaction_key that writes the numbers
\* without padding.
construct_mempool_transaction_key_Unpadded(transaction) ==
    Decimal(transaction.timestamp) \o <<58>>
        \o Decimal(transaction.transaction.sequence_number) \o <<58>>
        \o IdToString(TransactionId(transaction.transaction))

\* format_args!("{:032}:{:032}:{}", timestamp, sequence_number, id)
construct_mempool_transaction_key(transaction) ==
    ZeroPad(Decimal(transaction.timestamp), KeyWidth) \o <<58>>
        \o ZeroPad(Decimal(transaction.transaction.sequence_number), KeyWidth) \o <<58>>
        \o IdToString(TransactionId(transaction.transaction))

\* The bytewise order of keys: the first byte that differs decides, and a
\* proper prefix comes first.
BytesLess(a, b) ==
    LET common == IF Len(a) <= Len(b) THEN Len(a) ELSE Len(b)
        differ == {i \in 1..common : a[i] # b[i]}
    IN IF differ = {}
       THEN Len(a) < Len(b)
       ELSE LET first == CHOOSE i \in differ : \A j \in differ : i <= j
            IN a[first] < b[first]

\* serde_json::to_vec(&tx) and serde_json::from_slice(&value)
ToVec(tx) == <<tx.timestamp, tx.transaction.sequence_number, tx.transaction.data>>

FromSlice(value) ==
    [transaction |-> [data |-> value[3], sequence_number |-> value[2]],
     timestamp |-> value[1]]

EmptyCf == [k \in {} |-> <<>>]

put_cf(cf, key, value) == [k \in (DOMAIN cf) \cup {key} |-> IF k = key THEN value ELSE cf[k]]

delete_cf(cf, key) == [k \in (DOMAIN cf) \ {key} |-> cf[k]]

None == [some |-> FALSE]

Some(value) == [some |-> TRUE, value |-> value]

get_cf(cf, key) == IF key \in DOMAIN cf THEN Some(cf[key]) ELSE None

\* iterator_cf(.., IteratorMode::Start).next(): the entry with the least key.
FirstKey(cf) == CHOOSE k \in DOMAIN cf : \A other \in (DOMAIN cf) \ {k} : BytesLess(k, other)

\* RocksdbMempool::try_new on a fresh path.
RocksdbMempoolTryNew == [mempool_transactions |-> EmptyCf, transaction_lookups |-> EmptyCf]

get_mempool_transaction_key(db, transaction_id) == get_cf(db.transaction_lookups, transaction_id)

has_mempool_transaction(db, transaction_id) ==
    LET key == get_mempool_transaction_key(db, transaction_id) IN
    IF key.some
    THEN [result |-> get_cf(db.mempool_transactions, key.value).some, db |-> db]
    ELSE [result |-> FALSE, db |-> db]

\* Variant of add_mempool_transaction that stores the transaction without
\* its entry in the lookup table.
add_mempool_transaction_NoLookup(db, tx) ==
    LET key == construct_mempool_transaction_key(tx) IN
    [result |-> "Ok",
     db |-> [db EXCEPT !.mempool_transactions = put_cf(@, key, ToVec(tx))]]

add_mempool_transaction(db, tx) ==
    LET key == construct_mempool_transaction_key(tx) IN
    [result |-> "Ok",
     db |-> [db EXCEPT !.mempool_transactions = put_cf(@, key, ToVec(tx)),
                       !.transaction_lookups =
                            put_cf(@, TransactionId(tx.transaction), key)]]

remove_mempool_transaction(db, transaction_id) ==
    LET key == get_mempool_transaction_key(db, transaction_id) IN
    IF key.some
    THEN [result |-> "Ok",
          db |-> [db EXCEPT !.mempool_transactions = delete_cf(@, key.value),
                            !.transaction_lookups = delete_cf(@, transaction_id)]]
    ELSE [result |-> "Ok", db |-> db]

get_mempool_transaction(db, transaction_id) ==
    LET key == get_mempool_transaction_key(db, transaction_id) IN
    IF ~key.some
    THEN [result |-> None, db |-> db]
    ELSE LET serialized_tx == get_cf(db.mempool_transactions, key.value) IN
         IF serialized_tx.some
         THEN [result |-> Some(FromSlice(serialized_tx.value)), db |-> db]
         ELSE [result |-> None, db |-> db]

pop_mempool_transaction(db) ==
    IF DOMAIN db.mempool_transactions = {}
    THEN [result |-> None, db |-> db]
    ELSE LET key == FirstKey(db.mempool_transactions)
             tx == FromSlice(db.mempool_transactions[key])
         IN [result |-> Some(tx),
             db |-> [db EXCEPT !.mempool_transactions = delete_cf(@, key),
                               !.transaction_lookups =
                                    delete_cf(@, TransactionId(tx.transaction))]]

\* pop_mempool_transactions(n): pop_mempool_transaction up to n times, as
\* long as it returns a transaction.
RECURSIVE pop_mempool_transactions(_, _)
pop_mempool_transactions(db, n) ==
    IF n = 0
    THEN [result |-> <<>>, db |-> db]
    ELSE LET first == pop_mempool_transaction(db) IN
         IF ~first.result.some
         THEN [result |-> <<>>, db |-> db]
         ELSE LET rest == pop_mempool_transactions(first.db, n - 1) IN
              [result |-> <<first.result.value>> \o rest.result, db |-> rest.db]

\* Before the first call on the mempool.
NoCall == [op |-> "none"]

(***************************************************************************)
(* The load and soak test runner: networks/suzuka/load-soak-testing.       *)
(***************************************************************************)
\* Largest number of scenarios of a test.
MaxScenarios == 4

\* nb_clycle of a Soak test.
NbClycles == {0, 1}

\* Elapsed times of a scenario, in milliseconds.
ElapseMillis == {0, 10, 25}

Load(nb_scenarios) == [kind |-> "Load", nb_scenarios |-> nb_scenarios]

Soak(min_scenarios, max_scenarios, nb_clycle) ==
    [kind |-> "Soak", min_scenarios |-> min_scenarios, max_scenarios |-> max_scenarios,
     nb_clycle |-> nb_clycle]

TestKind ==
    {Load(n) : n \in 0..MaxScenarios}
        \cup {Soak(lo, hi, c) : lo \in 0..MaxScenarios, hi \in 0..MaxScenarios,
                                c \in NbClycles}

ExecutionConfig == [kind : TestKind, nb_scenario_per_client : 0..MaxScenarios]

\* ExecutionConfig::verify_config: TRUE when no assert! fails.
verify_config(config) ==
    IF config.kind.kind = "Load"
    THEN config.kind.nb_scenarios >= config.nb_scenario_per_client
    ELSE /\ config.kind.max_scenarios >= config.kind.min_scenarios
         /\ config.kind.min_scenarios >= config.nb_scenario_per_client

\* (1..=nb_scenarios) cut by itertools chunks(size) into consecutive chunks
\* of size ids, the last one shorter; size is not 0.
Chunks(nb_scenarios, size) ==
    LET n == (nb_scenarios + size - 1) \div size IN
    [c \in 1..n |->
        [i \in 1..(IF c * size <= nb_scenarios THEN size
                    ELSE nb_scenarios - (c - 1) * size) |-> (c - 1) * size + i]]

new_ok(scenario_id, elapse_millli) ==
    [scenario_id |-> scenario_id, elapse_millli |-> elapse_millli, result |-> "Ok"]

new_err(scenario_id, elapse_millli) ==
    [scenario_id |-> scenario_id, elapse_millli |-> elapse_millli, result |-> "Fail"]

is_ok(metric) == metric.result = "Ok"

RECURSIVE Sum(_)
Sum(numbers) == IF numbers = <<>> THEN 0 ELSE Head(numbers) + Sum(Tail(numbers))

\* a / b on u128: a panic when b is 0.
Divide(a, b) == IF b = 0 THEN [panic |-> TRUE] ELSE [panic |-> FALSE, value |-> a \div b]

\* ClientExecResult::calcualte_average_exec_time_milli
calcualte_average_exec_time_milli(sceanarios) ==
    IF sceanarios # <<>>
    THEN LET oks == SelectSeq(sceanarios, is_ok)
             ok_scenario == [i \in DOMAIN oks |-> oks[i].elapse_millli]
         IN Divide(Sum(ok_scenario), Len(ok_scenario))
    ELSE [panic |-> FALSE, value |-> 0]

\* How the task of a scenario ends: its run returns Ok or an error, or it
\* panics and join_next gives a JoinError.
ScenarioResults == {"Ok", "Err", "Panic"}

ScenarioOutcome == [result : ScenarioResults, elapse : ElapseMillis]

\* The orders in which n scenarios can complete.
CompletionOrders(n) == {p \in [1..n -> 1..n] : \A i, j \in 1..n : p[i] = p[j] => i = j}

\* What join_next gives a runner, in the order the scenarios of the chunk
\* complete: the id of the scenario, how it ended and a time in
\* milliseconds.
Completions(scenario_chunk) ==
    {[k \in DOMAIN scenario_chunk |->
         [id |-> scenario_chunk[p[k]], result |-> o[k].result, elapse |-> o[k].elapse]] :
       p \in CompletionOrders(Len(scenario_chunk)),
       o \in [DOMAIN scenario_chunk -> ScenarioOutcome]}

\* For load_runner the time is start_time.elapsed() when the scenario is
\* joined: it does not decrease from one completion to the next.
LoadCompletions(scenario_chunk) ==
    {c \in Completions(scenario_chunk) :
        \A k \in 1..(Len(c) - 1) : c[k].elapse <= c[k + 1].elapse}

\* For soak_runner_in_a_loop the time of a scenario that ends with Ok is the
\* average_time run_scenarion_in_loop returns; the time of another is
\* initial_start_time.elapsed() when it is joined.
SoakCompletions(scenario_chunk) ==
    {c \in Completions(scenario_chunk) :
        \A j, k \in DOMAIN c :
            (j < k /\ c[j].result # "Ok" /\ c[k].result # "Ok")
                => c[j].elapse <= c[k].elapse}

\* TestClient::load_runner: one metric for each completion, in the order
\* of completion.
load_runner(completions) ==
    [k \in DOMAIN completions |->
        LET res == completions[k] IN
        IF res.result = "Ok" THEN new_ok(res.id, res.elapse)
        ELSE IF res.result = "Err" THEN new_err(res.id, res.elapse)
        ELSE new_err(0, res.elapse)]

\* TestClient::soak_runner_in_a_loop
soak_runner_in_a_loop(completions) ==
    [k \in DOMAIN completions |->
        LET res == completions[k] IN
        IF res.result = "Ok" THEN new_ok(res.id, res.elapse)
        ELSE IF res.result = "Err" THEN new_err(res.id, res.elapse)
        ELSE new_err(0, res.elapse)]

ChunkIds(scenario_chunk) == {scenario_chunk[i] : i \in DOMAIN scenario_chunk}

\* TestClient::run_scenarios: the scenarios the client runs in a loop and
\* its ClientExecResult, or the panic that ends it.
run_scenarios(scenario_chunk, kind, completions) ==
    LET loops == /\ kind.kind = "Soak"
                 /\ scenario_chunk[Len(scenario_chunk)] <= kind.min_scenarios
        scenario_results ==
            IF kind.kind = "Load" THEN load_runner(completions)
            ELSE IF loops THEN soak_runner_in_a_loop(completions)
            ELSE <<>>
        average == calcualte_average_exec_time_milli(scenario_results)
    IN IF kind.kind = "Soak" /\ ~loops /\ kind.nb_clycle * 2 = 0
       THEN [panic |-> "duration / 0"]
       ELSE IF average.panic
       THEN [panic |-> "client average: division by zero"]
       ELSE [panic |-> "none",
             looped |-> IF loops THEN ChunkIds(scenario_chunk) ELSE {},
             average_execution_time_milli |-> average.value]

\* A client that has not run yet.
NotRun == [panic |-> "not run"]

\* The end of execute_test: the mean of the clients' averages that are not
\* 0.
average_exec_time(exec_results) ==
    LET no_zero == SelectSeq(exec_results, LAMBDA x : x.average_execution_time_milli > 0)
        averages == [i \in DOMAIN no_zero |-> no_zero[i].average_execution_time_milli]
    IN Divide(Sum(averages), Len(no_zero))

(***************************************************************************)
(* Executor::decrement_transactions_in_flight.  The counter is an          *)
(* AtomicU64; the model keeps its arithmetic and narrows its width.        *)
(***************************************************************************)
\* Bits of the counter in the model.
CounterWidth == 4

\* Largest number of transactions in flight.
MaxInFlight == 3

\* The arguments of decrement_transactions_in_flight.
DecrementCounts == 1..(MaxInFlight + 1)

\* Variant of saturating_sub that wraps around, as wrapping_sub does.
saturating_sub_Wraps(current, count) == (current - count) % (2 ^ CounterWidth)

\* u64::saturating_sub
saturating_sub(current, count) == IF count > current THEN 0 ELSE current - count

\* The closure of fetch_update: Some(current.saturating_sub(count))
fetch_update_closure(current, count) == Some(saturating_sub(current, count))

(***************************************************************************)
(* SuzukaPartialNode::read_blocks_from_da.  The DA light node streams      *)
(* blobs; the loop handles one blob per iteration.  The function is        *)
(* suspended in each call it awaits and in the wait for the write guard of *)
(* light_node_client, which it shares with the ticks.                      *)
(***************************************************************************)
\* Number of blobs the DA stream delivers.
MaxBlobs == 3

\* What a stream item is: an error of the stream, a response without blob,
\* a blob without type, a blob of another type, a sequenced block whose
\* bytes are not a Block, a block with a transaction that is not a
\* SignedTransaction, a well-formed block.
BlobKinds ==
    {"stream_error", "no_blob", "no_blob_type", "invalid_blob_type",
     "bad_block_bytes", "bad_transaction", "block"}

Blob(blob_id, kind) == [blob_id |-> blob_id, kind |-> kind]

\* Results of the executor and of the settlement manager for one block.
Results == {"Ok", "Err"}

BlockCall(op, blob_id, result) == [op |-> op, block |-> blob_id, result |-> result]

Running == [pc |-> "running"]

Returned_Ok == [pc |-> "returned", ret |-> "Ok"]

Returned_Err(error) == [pc |-> "returned", ret |-> "Err", error |-> error]

\* get_block_head_height has been called: the function is in lines 134-143.
Starting == [pc |-> "starting"]

\* try_join! has returned the error of the other future: this one is
\* dropped where it is suspended.
Dropped == [pc |-> "dropped"]

\* No task holds the write guard of light_node_client.
Free == "free"

\* The write guard is released: the lock is fair, and gives the guard to
\* the task that waits for it.
release(waits, waiter) == IF waits THEN waiter ELSE Free

\* read_blocks_from_da is suspended in stream.next().
NoAwait == [op |-> "stream.next"]

\* read_blocks_from_da is suspended in get_block_head_height, in
\* light_node_client.write() or in stream_read_from_height.
AwaitStart(op) == [op |-> op]

\* read_blocks_from_da is suspended in the call op made for blob.
Await(op, blob) == [op |-> op, blob |-> blob]

\* get_block_head_height or stream_read_from_height returns result: the
\* function from there to its next await or to its return.  tick_waits
\* tells whether a tick waits for the write guard.
start_resume(await, result, lock, tick_waits) ==
    IF await.op = "get_block_head_height"
    THEN IF result = "Err"
         THEN [state |-> Returned_Err(await.op), await |-> NoAwait, lock |-> lock]
         ELSE IF lock = Free
         THEN [state |-> Starting, await |-> AwaitStart("stream_read_from_height"),
               lock |-> "read_blocks"]
         ELSE [state |-> Starting, await |-> AwaitStart("write_lock"), lock |-> lock]
    ELSE IF result = "Err"
    THEN [state |-> Returned_Err(await.op), await |-> NoAwait,
          lock |-> release(tick_waits, "tick")]
    ELSE [state |-> Running, await |-> NoAwait, lock |-> release(tick_waits, "tick")]

\* stream.next() returns Some(blob): the iteration up to its first call,
\* build_block_metadata.
take_blob(blob) ==
    IF blob.kind \in {"stream_error", "no_blob", "no_blob_type", "invalid_blob_type",
                      "bad_block_bytes"}
    THEN [state |-> Returned_Err(blob.kind), await |-> NoAwait]
    ELSE [state |-> Running, await |-> Await("build_block_metadata", blob)]

\* Variant of the loop body that goes on to post the commitment of a block
\* when its execution has failed.
resume_IgnoresExecutionError(calls, await, result) ==
    LET returned == Append(calls, BlockCall(await.op, await.blob.blob_id, result)) IN
    IF await.op = "build_block_metadata"
    THEN [calls |-> returned, state |-> Running,
          await |-> Await("execute_block_opt", await.blob)]
    ELSE IF await.op = "execute_block_opt"
    THEN [calls |-> returned, state |-> Running,
          await |-> Await("post_block_commitment", await.blob)]
    ELSE [calls |-> returned, state |-> Running, await |-> NoAwait]

\* The call the function is suspended in returns result: the iteration
\* from there to its next call, to the next stream.next() or to the return
\* of the function.
resume(calls, await, result) ==
    LET returned == Append(calls, BlockCall(await.op, await.blob.blob_id, result)) IN
    IF result = "Err"
    THEN [calls |-> returned, state |-> Returned_Err(await.op), await |-> NoAwait]
    ELSE IF await.op = "build_block_metadata"
    THEN IF await.blob.kind = "bad_transaction"
         THEN [calls |-> returned, state |-> Returned_Err("bad_transaction"),
               await |-> NoAwait]
         ELSE [calls |-> returned, state |-> Running,
               await |-> Await("execute_block_opt", await.blob)]
    ELSE IF await.op = "execute_block_opt"
    THEN [calls |-> returned, state |-> Running,
          await |-> Await("post_block_commitment", await.blob)]
    ELSE [calls |-> returned, state |-> Running, await |-> NoAwait]

\* try_join!: read_blocks_from_da when write_transactions_to_da has
\* returned an error.
DropRead(state) == IF state.pc \in {"starting", "running"} THEN Dropped ELSE state

(***************************************************************************)
(* SuzukaPartialNode::tick_write_transactions_to_da.                       *)
(***************************************************************************)
\* Number of transactions sent into the channel.
MaxTransactions == 3

\* A SignedTransaction of the channel; serde_json::to_vec may fail on it.
SignedTransaction(id, serializable) == [id |-> id, serializable |-> serializable]

\* serde_json::to_vec(&transaction): the bytes of the transaction.
to_vec(transaction) ==
    IF transaction.serializable THEN Some(<<123, transaction.id, 125>>) ELSE None

BlobWrite(data) == [data |-> data]

BatchWriteRequest(blobs) == [blobs |-> blobs]

NoTick == [received |-> <<>>, ret |-> "none"]

\* No tick is in progress.
NoTickTask == [pc |-> "idle"]

\* The tick is suspended in timeout(.., recv()): the transactions it has
\* taken from the channel and its Vec `transactions`.
Receiving(received, transactions) ==
    [pc |-> "recv", received |-> received, transactions |-> transactions]

\* The tick is suspended in light_node_client.write().
WaitingForLock(received, transactions) ==
    [pc |-> "write_lock", received |-> received, transactions |-> transactions]

\* The tick holds the write guard and is suspended in batch_write(request).
Writing(received, request) ==
    [pc |-> "batch_write", received |-> received, request |-> request]

\* The end of the tick after its loop: nothing to write and Ok(()), or the
\* write guard and the call of batch_write, or the wait for the guard.
after_loop(received, transactions, lock) ==
    IF Len(transactions) > 0
    THEN IF lock = Free
         THEN [task |-> Writing(received, BatchWriteRequest(transactions)),
               ret |-> "none", lock |-> "tick"]
         ELSE [task |-> WaitingForLock(received, transactions), ret |-> "none",
               lock |-> lock]
    ELSE [task |-> NoTickTask, ret |-> "Ok", received |-> received, lock |-> lock]

\* recv() returns transaction: the body of the loop.  time_over tells
\* whether Instant::now() > end_time after it.
recv_returns(task, transaction, time_over, lock) ==
    LET received == Append(task.received, transaction)
        serialized_transaction == to_vec(transaction)
    IN IF ~serialized_transaction.some
       THEN [task |-> NoTickTask, ret |-> "Err", received |-> received, lock |-> lock]
       ELSE LET transactions == Append(task.transactions,
                                       BlobWrite(serialized_transaction.value))
            IN IF time_over
               THEN after_loop(received, transactions, lock)
               ELSE [task |-> Receiving(received, transactions), ret |-> "none",
                     lock |-> lock]

\* timeout(.., recv()) returns Err: the loop ends.
recv_times_out(task, lock) == after_loop(task.received, task.transactions, lock)

\* The tick has the write guard: it calls batch_write.
write_lock_granted(task) ==
    Writing(task.received, BatchWriteRequest(task.transactions))

\* batch_write returns result: the write, the release of the guard and the
\* return of the tick.  read_waits tells whether read_blocks_from_da waits
\* for the guard.
batch_write_returns(task, writes, result, read_waits) ==
    [task |-> NoTickTask, ret |-> result, received |-> task.received,
     writes |-> Append(writes, [request |-> task.request, result |-> result]),
     lock |-> release(read_waits, "read_blocks")]

\* try_join!: the tick when read_blocks_from_da has returned an error.
DropTick(task) ==
    IF task.pc \in {"recv", "write_lock", "batch_write"}
    THEN [pc |-> "dropped", received |-> task.received]
    ELSE task

(***************************************************************************)
(* read_commitment_events, the background task of SuzukaPartialNode.       *)
(***************************************************************************)
\* Number of items the commitment event stream delivers.
MaxCommitmentEvents == 3

Heights == {1, 2, 3}

\* Ok(BlockCommitmentEvent::Accepted(commitment))
Accepted(height) == [kind |-> "Accepted", height |-> height]

\* Ok(BlockCommitmentEvent::Rejected { height, reason })
Rejected(height) == [kind |-> "Rejected", height |-> height]

\* Err(_) as an item of the stream.
StreamError == [kind |-> "Err"]

CommitmentItems ==
    {Accepted(h) : h \in Heights} \cup {Rejected(h) : h \in Heights} \cup {StreamError}

\* Variant of the loop body that takes the finalized height back below a
\* rejected commitment.
handle_commitment_event_Reverts(height, item, set_result) ==
    IF item.kind = "Err"
    THEN [height |-> height, state |-> Returned_Err("stream")]
    ELSE IF item.kind = "Accepted"
    THEN IF set_result = "Ok"
         THEN [height |-> item.height, state |-> Running]
         ELSE [height |-> height, state |-> Returned_Err("set_finalized_block_height")]
    ELSE [height |-> item.height - 1, state |-> Running]

\* One iteration of `while let Some(res) = stream.next().await`: the
\* finalized height after it and whether the task goes on or returns.
handle_commitment_event(height, item, set_result) ==
    IF item.kind = "Err"
    THEN [height |-> height, state |-> Returned_Err("stream")]
    ELSE IF item.kind = "Accepted"
    THEN IF set_result = "Ok"
         THEN [height |-> item.height, state |-> Running]
         ELSE [height |-> height, state |-> Returned_Err("set_finalized_block_height")]
    ELSE [height |-> height, state |-> Running]

\* Number of tasks that share the mempool, and of transactions it is given
\* while they run.
NumTasks == 2

MaxAdded == 2

Tasks == 1..NumTasks

\* A task that has not called the mempool yet.
Idle == [pc |-> "idle"]

(***************************************************************************)
(* The state machine.                                                      *)
(***************************************************************************)
Init ==
    /\ active_swaps_b1_to_b2 = BridgeServiceNew.active_swaps_b1_to_b2
    /\ active_swaps_b2_to_b1 = BridgeServiceNew.active_swaps_b2_to_b1
    /\ blockchain_1 = BridgeServiceNew.blockchain_1
    /\ blockchain_2 = BridgeServiceNew.blockchain_2
    /\ emitted = 0
    /\ turn = NoTurn
    /\ panicked = FALSE
    /\ mempool = RocksdbMempoolTryNew
    /\ mempool_call = NoCall
    /\ tasks = [t \in Tasks |-> Idle]
    /\ added = {}
    /\ adding = {}
    /\ da_stream = [queue |-> <<>>, count |-> 0, ended |-> FALSE]
    /\ read_blocks = [pc |-> "not_started"]
    /\ read_blocks_await = NoAwait
    /\ block_calls = <<>>
    /\ transaction_channel = [queue |-> <<>>, count |-> 0]
    /\ da_writes = <<>>
    /\ tick_task = NoTickTask
    /\ tick = NoTick
    /\ light_node_client = Free
    /\ commitment_events = [queue |-> <<>>, count |-> 0, ended |-> FALSE]
    /\ finalized_block_height = 0
    /\ commitment_task = Running
    /\ transactions_in_flight = 0
    /\ decrements = [t \in Tasks |-> Idle]
    /\ applied = <<>>
    /\ test = [pc |-> "not_started"]

This ==
    [active_swaps_b1_to_b2 |-> active_swaps_b1_to_b2,
     active_swaps_b2_to_b1 |-> active_swaps_b2_to_b1,
     blockchain_1 |-> blockchain_1,
     blockchain_2 |-> blockchain_2]

\* The turns poll_next can take in the current state, one for each pair of
\* results the two trackers' polls can return.
Turns ==
    {poll_next(This, p12, p21) : p12 \in ActiveSwapMapPoll(active_swaps_b1_to_b2),
                                 p21 \in ActiveSwapMapPoll(active_swaps_b2_to_b1)}

\* The consumer polls the orchestrator once.
PollNext ==
    /\ ~panicked
    /\ \E f \in Turns :
          /\ active_swaps_b1_to_b2' = f.a12
          /\ active_swaps_b2_to_b1' = f.a21
          /\ blockchain_1' = f.b1
          /\ blockchain_2' = f.b2
          /\ turn' = [ret |-> f.ret, t12 |-> f.t12, t21 |-> f.t21,
                      c1 |-> f.c1, c2 |-> f.c2, ops |-> f.ops, calls |-> f.calls,
                      pre12 |-> Registry(active_swaps_b1_to_b2),
                      pre21 |-> Registry(active_swaps_b2_to_b1)]
          /\ UNCHANGED emitted
          /\ panicked' = (f.ret.poll = "Panic")
    /\ UNCHANGED notBridgeVars

\* A chain makes one more contract event ready on its stream.
Emit(b, ev) == [b EXCEPT !.queue = Append(@, ev)]

Blockchain1Emits ==
    /\ ~blockchain_1.ended
    /\ emitted < MaxEvents
    /\ \E ev \in Blockchain1Events : blockchain_1' = Emit(blockchain_1, ev)
    /\ emitted' = emitted + 1
    /\ UNCHANGED <<active_swaps_b1_to_b2, active_swaps_b2_to_b1, blockchain_2, turn, panicked>>
    /\ UNCHANGED notBridgeVars

Blockchain2Emits ==
    /\ ~blockchain_2.ended
    /\ emitted < MaxEvents
    /\ \E ev \in Blockchain2Events : blockchain_2' = Emit(blockchain_2, ev)
    /\ emitted' = emitted + 1
    /\ UNCHANGED <<active_swaps_b1_to_b2, active_swaps_b2_to_b1, blockchain_1, turn, panicked>>
    /\ UNCHANGED notBridgeVars

\* A chain's stream terminates: once its ready events are consumed it
\* returns end-of-stream.
Blockchain1Ends ==
    /\ ~blockchain_1.ended
    /\ emitted < MaxEvents
    /\ blockchain_1' = [blockchain_1 EXCEPT !.ended = TRUE]
    /\ emitted' = emitted + 1
    /\ UNCHANGED <<active_swaps_b1_to_b2, active_swaps_b2_to_b1, blockchain_2, turn, panicked>>
    /\ UNCHANGED notBridgeVars

Blockchain2Ends ==
    /\ ~blockchain_2.ended
    /\ emitted < MaxEvents
    /\ blockchain_2' = [blockchain_2 EXCEPT !.ended = TRUE]
    /\ emitted' = emitted + 1
    /\ UNCHANGED <<active_swaps_b1_to_b2, active_swaps_b2_to_b1, blockchain_1, turn, panicked>>
    /\ UNCHANGED notBridgeVars

Next ==
    \/ PollNext
    \/ Blockchain1Emits
    \/ Blockchain2Emits
    \/ Blockchain1Ends
    \/ Blockchain2Ends

Spec == Init /\ [][Next]_vars

\* The consumer keeps polling: a turn that can be taken is eventually taken.
FairSpec == Spec /\ WF_vars(PollNext)

(***************************************************************************)
(* A tracker's progress sequence is a stream like the chains', and         *)
(* poll_next has an arm for its end (Poll::Ready(None), lines 122-124 and  *)
(* 148-150).  The trackers of this specification can terminate, at any     *)
(* point and with calls in flight.                                         *)
(***************************************************************************)
ActiveSwapsB1ToB2Ends ==
    /\ ~active_swaps_b1_to_b2.ended
    /\ active_swaps_b1_to_b2' = [active_swaps_b1_to_b2 EXCEPT !.ended = TRUE]
    /\ UNCHANGED <<active_swaps_b2_to_b1, blockchain_1, blockchain_2, emitted, turn, panicked>>
    /\ UNCHANGED notBridgeVars

ActiveSwapsB2ToB1Ends ==
    /\ ~active_swaps_b2_to_b1.ended
    /\ active_swaps_b2_to_b1' = [active_swaps_b2_to_b1 EXCEPT !.ended = TRUE]
    /\ UNCHANGED <<active_swaps_b1_to_b2, blockchain_1, blockchain_2, emitted, turn, panicked>>
    /\ UNCHANGED notBridgeVars

NextWithTrackerEnds ==
    \/ PollNext
    \/ Blockchain1Emits
    \/ Blockchain2Emits
    \/ Blockchain1Ends
    \/ Blockchain2Ends
    \/ ActiveSwapsB1ToB2Ends
    \/ ActiveSwapsB2ToB1Ends

TrackerEndSpec == Init /\ [][NextWithTrackerEnds]_vars

(***************************************************************************)
(* The trackers are public fields of BridgeService.  poll_next itself      *)
(* starts no transfer on active_swaps_b2_to_b1; the owner of the service   *)
(* drives that tracker through its operations.                             *)
(***************************************************************************)
\* service.active_swaps_b2_to_b1.start_bridge_transfer(details), for a
\* transfer the tracker does not hold.
StartB2ToB1 ==
    /\ ~panicked
    /\ emitted < MaxEvents
    /\ \E d \in BridgeTransferDetails :
          /\ ~already_executing(active_swaps_b2_to_b1, d.bridge_transfer_id)
          /\ active_swaps_b2_to_b1' = start_bridge_transfer(active_swaps_b2_to_b1, d)
    /\ emitted' = emitted + 1
    /\ UNCHANGED <<active_swaps_b1_to_b2, blockchain_1, blockchain_2, turn, panicked>>
    /\ UNCHANGED notBridgeVars

\* service.active_swaps_b2_to_b1.complete_bridge_transfer(details)
CompleteB2ToB1 ==
    /\ ~panicked
    /\ emitted < MaxEvents
    /\ \E d \in CompletedDetails :
          active_swaps_b2_to_b1' = complete_bridge_transfer(active_swaps_b2_to_b1, d).map
    /\ emitted' = emitted + 1
    /\ UNCHANGED <<active_swaps_b1_to_b2, blockchain_1, blockchain_2, turn, panicked>>
    /\ UNCHANGED notBridgeVars

NextWithOwner ==
    \/ PollNext
    \/ Blockchain1Emits
    \/ Blockchain2Emits
    \/ Blockchain1Ends
    \/ Blockchain2Ends
    \/ StartB2ToB1
    \/ CompleteB2ToB1

OwnerSpec == Init /\ [][NextWithOwner]_vars

(***************************************************************************)
(* Properties.  turn describes the last call of poll_next; no other action *)
(* changes the trackers, so the trackers are as that call left them.       *)
(***************************************************************************)
Tracked(registry, id) == \E i \in DOMAIN registry : registry[i].bridge_transfer_id = id

Called(op, id) ==
    \E i \in DOMAIN turn.ops : turn.ops[i].op = op /\ turn.ops[i].bridge_transfer_id = id

CalledWith(op, id, result) ==
    \E i \in DOMAIN turn.ops : turn.ops[i] = TrackerOp(op, "b1_to_b2", id, result)

RegistriesUnchanged ==
    /\ Registry(active_swaps_b1_to_b2) = turn.pre12
    /\ Registry(active_swaps_b2_to_b1) = turn.pre21

\* C1: in every reachable state each tracker's registry holds at most one
\* entry per bridge transfer id, in both directions.
C1_AtMostOneEntryPerId ==
    \A id \in BridgeTransferIds :
        /\ Cardinality(EntriesFor(active_swaps_b1_to_b2, id)) <= 1
        /\ Cardinality(EntriesFor(active_swaps_b2_to_b1, id)) <= 1

\* Two swaps are tracked and a repeated Initiated event has just been
\* answered with AlreadyPresent.
C1_Witness ==
    /\ Len(active_swaps_b1_to_b2.swaps) = 2
    /\ \E d \in BridgeTransferDetails : turn.ret = Ready(B1I_Warn_AlreadyPresent(d))

\* C2: a turn that takes from chain 1 an Initiated event whose id was already
\* tracked returns the AlreadyPresent warning with the event's details, calls
\* no start_bridge_transfer, dispatches no call and leaves both registries
\* as they were.
C2_DuplicateInitiatedIsWarnedOnly ==
    \A d \in BridgeTransferDetails :
        (turn.c1 = Ready(Initiated(d)) /\ Tracked(turn.pre12, d.bridge_transfer_id))
            => /\ turn.ret = Ready(B1I_Warn_AlreadyPresent(d))
               /\ ~Called("start_bridge_transfer", d.bridge_transfer_id)
               /\ turn.calls = <<>>
               /\ RegistriesUnchanged

\* A duplicate Initiated event whose details differ from the tracked ones
\* has been answered; the tracked details are still the first ones.
C2_Witness ==
    \E d \in BridgeTransferDetails :
        /\ turn.c1 = Ready(Initiated(d))
        /\ turn.ret = Ready(B1I_Warn_AlreadyPresent(d))
        /\ \E i \in DOMAIN active_swaps_b1_to_b2.swaps :
              /\ active_swaps_b1_to_b2.swaps[i].details.bridge_transfer_id = d.bridge_transfer_id
              /\ active_swaps_b1_to_b2.swaps[i].details # d

\* C3: a turn that takes from chain 1 an Initiated event whose id was not
\* tracked calls start_bridge_transfer, which dispatches exactly one lock call
\* on chain 2 with the event's hash-lock and amount; the turn returns the
\* wrapped initiator event and the id is tracked afterwards.
C3_NewInitiatedIsRegistered ==
    \A d \in BridgeTransferDetails :
        (turn.c1 = Ready(Initiated(d)) /\ ~Tracked(turn.pre12, d.bridge_transfer_id))
            => /\ Called("start_bridge_transfer", d.bridge_transfer_id)
               /\ turn.calls = <<[chain |-> 2,
                                  op |-> "lock_bridge_transfer_assets",
                                  bridge_transfer_id |-> d.bridge_transfer_id,
                                  hash_lock |-> d.hash_lock,
                                  amount |-> d.amount,
                                  attempts |-> 0]>>
               /\ turn.ret = Ready(B1I_ContractEvent(Initiated(d)))
               /\ already_executing(active_swaps_b1_to_b2, d.bridge_transfer_id)

\* A second swap has just been registered while the first is still tracked.
C3_Witness ==
    \E d \in BridgeTransferDetails :
        /\ turn.c1 = Ready(Initiated(d))
        /\ turn.ret = Ready(B1I_ContractEvent(Initiated(d)))
        /\ Len(turn.pre12) = 1
        /\ Registry(active_swaps_b1_to_b2) = Append(turn.pre12, d)

\* C4: a turn that takes from chain 2 a counterparty Completed event whose id
\* was not tracked returns the CannotCompleteUnexistingSwap warning with the
\* event's details, dispatches no call, does not panic and leaves the
\* registry as it was, without an entry for the id.
C4_CompletedUnknownIsWarned ==
    \A d \in CompletedDetails :
        (turn.c2 = Ready(Completed(d)) /\ ~Tracked(turn.pre12, d.bridge_transfer_id))
            => /\ turn.ret = Ready(B2C_Warn_CannotCompleteUnexistingSwap(d))
               /\ turn.calls = <<>>
               /\ ~panicked
               /\ RegistriesUnchanged
               /\ ~already_executing(active_swaps_b1_to_b2, d.bridge_transfer_id)

\* A Completed event for an untracked id has been answered while another
\* swap is tracked.
C4_Witness ==
    \E d \in CompletedDetails :
        /\ turn.c2 = Ready(Completed(d))
        /\ turn.ret = Ready(B2C_Warn_CannotCompleteUnexistingSwap(d))
        /\ Len(active_swaps_b1_to_b2.swaps) = 1

\* C5: a turn that takes from chain 2 a counterparty Completed event whose id
\* was tracked calls complete_bridge_transfer, which dispatches one claim call
\* on chain 1 with the event's secret and removes the entry; the turn returns
\* the Completed event and the id is no longer tracked.
C5_CompletedTrackedIsClaimed ==
    \A d \in CompletedDetails :
        (turn.c2 = Ready(Completed(d)) /\ Tracked(turn.pre12, d.bridge_transfer_id))
            => /\ CalledWith("complete_bridge_transfer", d.bridge_transfer_id, "Ok")
               /\ turn.calls = <<[chain |-> 1,
                                  op |-> "complete_bridge_transfer",
                                  bridge_transfer_id |-> d.bridge_transfer_id,
                                  secret |-> d.secret,
                                  attempts |-> 0]>>
               /\ turn.ret = Ready(B2C_ContractEvent(Completed(d)))
               /\ ~already_executing(active_swaps_b1_to_b2, d.bridge_transfer_id)

\* A tracked swap has just been completed with the second secret.
C5_Witness ==
    \E d \in CompletedDetails :
        /\ d.secret = "S2"
        /\ turn.c2 = Ready(Completed(d))
        /\ Tracked(turn.pre12, d.bridge_transfer_id)
        /\ turn.ret = Ready(B2C_ContractEvent(Completed(d)))

\* C6: whenever complete_bridge_transfer is called for an id that has no
\* entry in the tracker, it returns NonExistingSwap, no call is dispatched
\* and the tracker's registry is as before.
C6_CompleteOfUnknownFails ==
    \A id \in BridgeTransferIds :
        (Called("complete_bridge_transfer", id) /\ ~Tracked(turn.pre12, id))
            => /\ CalledWith("complete_bridge_transfer", id, "NonExistingSwap")
               /\ ~CalledWith("complete_bridge_transfer", id, "Ok")
               /\ turn.calls = <<>>
               /\ Registry(active_swaps_b1_to_b2) = turn.pre12

\* complete_bridge_transfer has failed on an empty tracker.
C6_Witness ==
    /\ \E id \in BridgeTransferIds :
          CalledWith("complete_bridge_transfer", id, "NonExistingSwap")
    /\ turn.pre12 = <<>>
    /\ active_swaps_b1_to_b2.swaps = <<>>

\* C7: right after start_bridge_transfer(d), already_executing(d.id) is true;
\* a turn whose only tracker operation is already_executing leaves the
\* tracker's registry as it was.
C7_StartThenAlreadyExecuting ==
    \A id \in BridgeTransferIds :
        /\ Called("start_bridge_transfer", id) => already_executing(active_swaps_b1_to_b2, id)
        /\ turn.ops = <<TrackerOp("already_executing", "b1_to_b2", id, "true")>>
              => Registry(active_swaps_b1_to_b2) = turn.pre12

\* start_bridge_transfer has just been called on an empty tracker.
C7_Witness ==
    /\ \E id \in BridgeTransferIds : Called("start_bridge_transfer", id)
    /\ turn.pre12 = <<>>
    /\ Len(active_swaps_b1_to_b2.swaps) = 1

\* C8: a turn that takes from chain 2 a counterparty Locked event returns it
\* as it is, calls no tracker operation, dispatches no call and leaves both
\* registries as they were.
C8_LockedIsForwarded ==
    \A d \in LockDetails :
        turn.c2 = Ready(Locked(d))
            => /\ turn.ret = Ready(B2C_ContractEvent(Locked(d)))
               /\ turn.ops = <<>>
               /\ turn.calls = <<>>
               /\ RegistriesUnchanged

\* The Locked event of a tracked swap has been forwarded and the swap is
\* still tracked.
C8_Witness ==
    \E d \in LockDetails :
        /\ turn.ret = Ready(B2C_ContractEvent(Locked(d)))
        /\ Tracked(turn.pre12, d.bridge_transfer_id)
        /\ already_executing(active_swaps_b1_to_b2, d.bridge_transfer_id)

\* The Completed event of chain 2 for d has been answered with
\* CannotCompleteUnexistingSwap and the Initiated event of the same transfer
\* is the next event of chain 1.
CompletedBeforeInitiated(d) ==
    /\ turn.ret = Ready(B2C_Warn_CannotCompleteUnexistingSwap(d))
    /\ blockchain_1.queue # <<>>
    /\ Head(blockchain_1.queue).kind = "Initiated"
    /\ Head(blockchain_1.queue).details.bridge_transfer_id = d.bridge_transfer_id

ClaimDispatched(d) ==
    \E i \in DOMAIN turn.calls :
        /\ turn.calls[i].op = "complete_bridge_transfer"
        /\ turn.calls[i].chain = 1
        /\ turn.calls[i].bridge_transfer_id = d.bridge_transfer_id

\* C9: when chain 2's Completed event of a transfer is consumed before chain
\* 1's Initiated event of that transfer is registered, the swap is still
\* completed: a claim call for it is dispatched on chain 1 later on.
C9_RaceStillCompletes ==
    \A d \in CompletedDetails : CompletedBeforeInitiated(d) ~> ClaimDispatched(d)

\* C10: a turn that takes a Refunded event from chain 1 returns normally.
C10_RefundedDoesNotPanic ==
    \A id \in BridgeTransferIds :
        turn.c1 = Ready(Refunded(id)) => (turn.ret.poll # "Panic" /\ ~panicked)

TrackerEvents ==
    {BridgeAssetsLocked(id) : id \in BridgeTransferIds}
        \cup {BridgeAssetsLockingError(id) : id \in BridgeTransferIds}
        \cup {BridgeAssetsCompleted(id) : id \in BridgeTransferIds}
        \cup {BridgeAssetsCompletingError(id) : id \in BridgeTransferIds}

\* C11: a turn in which a tracker reports a progress event, whichever of the
\* two trackers and whichever of the four events, gets past the handling of
\* that event without a panic and goes on to poll the event stream of chain 1.
C11_NoTrackerEventIsFatal ==
    \A ev \in TrackerEvents :
        (turn.t12 = Ready(ev) \/ turn.t21 = Ready(ev)) => turn.c1 # NotPolled

\* The transfer an output item is about.
ItemTransferId(item) ==
    IF item.variant = "Warn"
    THEN item.payload.bridge_transfer_id
    ELSE item.payload.details.bridge_transfer_id

\* poll_next has returned a warning item about transfer id.
WarningReturned(id) ==
    /\ turn.ret.poll = "Ready"
    /\ turn.ret.item.variant = "Warn"
    /\ ItemTransferId(turn.ret.item) = id

\* poll_next has returned an item about transfer id that is not a warning.
InformationReturned(id) ==
    /\ turn.ret.poll = "Ready"
    /\ turn.ret.item.variant = "ContractEvent"
    /\ ItemTransferId(turn.ret.item) = id

TrackerReported(ev) == turn.t12 = Ready(ev) \/ turn.t21 = Ready(ev)

\* C12: when poll_next takes BridgeAssetsLockingError or
\* BridgeAssetsCompletingError from a tracker, a warning item about that
\* transfer is returned to the consumer, in that turn or a later one.
C12_TrackerErrorIsWarned ==
    \A id \in BridgeTransferIds :
        (TrackerReported(BridgeAssetsLockingError(id))
            \/ TrackerReported(BridgeAssetsCompletingError(id))) ~> WarningReturned(id)

\* C13: when poll_next takes BridgeAssetsLocked or BridgeAssetsCompleted from
\* the B1->B2 tracker, an informational item about that transfer is returned
\* to the consumer, in that turn or a later one.
C13_TrackerProgressIsForwarded ==
    \A id \in BridgeTransferIds :
        (turn.t12 = Ready(BridgeAssetsLocked(id))
            \/ turn.t12 = Ready(BridgeAssetsCompleted(id))) ~> InformationReturned(id)

\* C14: poll_next never returns end-of-stream, whichever of the two
\* trackers and the two chains have ended; a turn in which neither chain had
\* an event ready (the trackers' events produce no output) returns Pending.
C14_NeverEnds ==
    /\ turn.ret.poll # "ReadyNone"
    /\ (turn.c1.poll \in {"Pending", "ReadyNone"} /\ turn.c2.poll \in {"Pending", "ReadyNone"})
          => turn.ret = Pending

\* All four sources have ended: both trackers and both chains returned
\* end-of-stream in the turn, and the turn has returned Pending.
C14_Witness ==
    /\ turn.t12 = ReadyNone
    /\ turn.t21 = ReadyNone
    /\ turn.c1 = ReadyNone
    /\ turn.c2 = ReadyNone
    /\ turn.ret = Pending

\* The step is a turn of poll_next: every other action counts an event.
IsTurn == emitted' = emitted

Consumed(b) == IF b.queue = <<>> THEN b ELSE [b EXCEPT !.queue = Tail(@)]

\* The event an output item was made of.
ItemEvent(item) ==
    IF item.variant = "Warn"
    THEN IF item.tag = "B1I" THEN Initiated(item.payload) ELSE Completed(item.payload)
    ELSE item.payload

\* C15: a turn takes at most the first ready event of each chain and the item
\* it returns is made of the event it has just taken from that chain; what a
\* chain emits is added behind the events that are ready.  So the outputs of
\* one chain's events follow that chain's order and no event is output twice.
C15_PerSourceOrder ==
    [][/\ IsTurn =>
            /\ blockchain_1' \in {blockchain_1, Consumed(blockchain_1)}
            /\ blockchain_2' \in {blockchain_2, Consumed(blockchain_2)}
            /\ (turn'.ret.poll = "Ready" /\ turn'.ret.item.tag = "B1I")
                  => /\ blockchain_1.queue # <<>>
                     /\ blockchain_1' = Consumed(blockchain_1)
                     /\ ItemEvent(turn'.ret.item) = Head(blockchain_1.queue)
                     /\ blockchain_2' = blockchain_2
            /\ (turn'.ret.poll = "Ready" /\ turn'.ret.item.tag = "B2C")
                  => /\ blockchain_2.queue # <<>>
                     /\ blockchain_2' = Consumed(blockchain_2)
                     /\ ItemEvent(turn'.ret.item) = Head(blockchain_2.queue)
       /\ ~IsTurn =>
            /\ SubSeq(blockchain_1'.queue, 1, Len(blockchain_1.queue)) = blockchain_1.queue
            /\ SubSeq(blockchain_2'.queue, 1, Len(blockchain_2.queue)) = blockchain_2.queue
      ]_vars

\* An item made of a chain-1 event has been returned while more events of
\* both chains are ready behind it.
C15_Witness ==
    /\ turn.ret.poll = "Ready"
    /\ turn.ret.item.tag = "B1I"
    /\ blockchain_1.queue # <<>>
    /\ blockchain_2.queue # <<>>

\* The stream of a chain has ended and has no event left.
Ended(b) == b.ended /\ b.queue = <<>>

\* C16: in a turn taken after one chain's stream has ended, both trackers and
\* the other chain are still polled, and the other chain's event has its
\* usual effect: Locked and Completed of chain 2 are answered and the
\* completed swap is removed; Initiated of chain 1 is registered and returned.
C16_SourcesAreIsolated ==
    [][IsTurn =>
        /\ Ended(blockchain_1) =>
              /\ turn'.t12 # NotPolled /\ turn'.t21 # NotPolled
              /\ turn'.c1 = ReadyNone
              /\ turn'.c2 = BlockchainPoll(blockchain_2).poll
              /\ \A d \in LockDetails :
                    turn'.c2 = Ready(Locked(d))
                        => turn'.ret = Ready(B2C_ContractEvent(Locked(d)))
              /\ \A d \in CompletedDetails :
                    (turn'.c2 = Ready(Completed(d))
                        /\ already_executing(active_swaps_b1_to_b2, d.bridge_transfer_id))
                        => /\ turn'.ret = Ready(B2C_ContractEvent(Completed(d)))
                           /\ ~already_executing(active_swaps_b1_to_b2', d.bridge_transfer_id)
        /\ Ended(blockchain_2) =>
              /\ turn'.t12 # NotPolled /\ turn'.t21 # NotPolled
              /\ turn'.c1 = BlockchainPoll(blockchain_1).poll
              /\ \A d \in BridgeTransferDetails :
                    (turn'.c1 = Ready(Initiated(d))
                        /\ ~already_executing(active_swaps_b1_to_b2, d.bridge_transfer_id))
                        => /\ turn'.ret = Ready(B1I_ContractEvent(Initiated(d)))
                           /\ already_executing(active_swaps_b1_to_b2', d.bridge_transfer_id)
      ]_vars

\* After the stream of chain 1 has ended, a Completed event of chain 2 has
\* completed a tracked swap.
C16_Witness ==
    /\ Ended(blockchain_1)
    /\ turn.c1 = ReadyNone
    /\ \E d \in CompletedDetails :
          /\ turn.c2 = Ready(Completed(d))
          /\ turn.ret = Ready(B2C_ContractEvent(Completed(d)))
          /\ Tracked(turn.pre12, d.bridge_transfer_id)

\* C17: a turn of poll_next, whose tracker operations are all on the B1->B2
\* tracker, leaves the registry of the B2->B1 tracker as it was; a step that
\* changes the registry of the B2->B1 tracker leaves the B1->B2 tracker as it
\* was; so already_executing of one direction never changes together with
\* already_executing of the other.
C17_TrackersAreIndependent ==
    [][/\ IsTurn => Registry(active_swaps_b2_to_b1') = Registry(active_swaps_b2_to_b1)
       /\ Registry(active_swaps_b2_to_b1') # Registry(active_swaps_b2_to_b1)
             => active_swaps_b1_to_b2' = active_swaps_b1_to_b2
       /\ \A id \in BridgeTransferIds :
             already_executing(active_swaps_b1_to_b2', id)
                     # already_executing(active_swaps_b1_to_b2, id)
                 => already_executing(active_swaps_b2_to_b1', id)
                        = already_executing(active_swaps_b2_to_b1, id)
      ]_vars

\* A transfer id tracked in the B2->B1 direction has just been completed in
\* the B1->B2 direction and is still tracked in the B2->B1 direction.
C17_Witness ==
    \E id \in BridgeTransferIds :
        /\ CalledWith("complete_bridge_transfer", id, "Ok")
        /\ Tracked(turn.pre21, id)
        /\ ~already_executing(active_swaps_b1_to_b2, id)
        /\ already_executing(active_swaps_b2_to_b1, id)

\* The error event of a call in flight.
ErrorOf(call) ==
    IF call.op = "lock_bridge_transfer_assets"
    THEN BridgeAssetsLockingError(call.bridge_transfer_id)
    ELSE BridgeAssetsCompletingError(call.bridge_transfer_id)

\* The calls in flight of the B1->B2 tracker after the tracker's poll of the
\* turn just taken, without the calls the turn dispatched afterwards.
CallsAfterPoll ==
    SubSeq(active_swaps_b1_to_b2'.calls, 1,
           Len(active_swaps_b1_to_b2'.calls) - Len(turn'.calls))

\* C18: no call in flight has failed MaxAttempts times or more; a poll of the
\* tracker that reports an error event reports it for a call whose last
\* allowed attempt has failed, and that call is in flight no longer; a call
\* leaves the tracker only with its event reported; a failed attempt that
\* was not the last one is not reported.
C18_BoundedRetry ==
    [][IsTurn =>
        /\ \A i \in DOMAIN active_swaps_b1_to_b2'.calls :
              active_swaps_b1_to_b2'.calls[i].attempts < MaxAttempts
        /\ \A id \in BridgeTransferIds :
              \A ev \in {BridgeAssetsLockingError(id), BridgeAssetsCompletingError(id)} :
                 turn'.t12 = Ready(ev)
                     => \E i \in DOMAIN active_swaps_b1_to_b2.calls :
                           /\ ErrorOf(active_swaps_b1_to_b2.calls[i]) = ev
                           /\ active_swaps_b1_to_b2.calls[i].attempts = MaxAttempts - 1
                           /\ CallsAfterPoll = RemoveAt(active_swaps_b1_to_b2.calls, i)
        /\ Len(CallsAfterPoll) < Len(active_swaps_b1_to_b2.calls) => turn'.t12.poll = "Ready"
        /\ (/\ Len(CallsAfterPoll) = Len(active_swaps_b1_to_b2.calls)
            /\ \E i \in DOMAIN active_swaps_b1_to_b2.calls :
                  CallsAfterPoll[i].attempts > active_swaps_b1_to_b2.calls[i].attempts)
              => turn'.t12 = Pending
      ]_vars

\* The claim call of a completed swap has failed for the last time and
\* BridgeAssetsCompletingError has been reported.
C18_Witness ==
    /\ \E id \in BridgeTransferIds : turn.t12 = Ready(BridgeAssetsCompletingError(id))
    /\ active_swaps_b1_to_b2.calls = <<>>
    /\ ~panicked

(***************************************************************************)
(* The operations of RocksdbMempool, called by its user in any order.      *)
(***************************************************************************)
MempoolCall(op, arg, result) == [op |-> op, arg |-> arg, result |-> result]

AddMempoolTransaction ==
    /\ \E tx \in MempoolTransaction :
          LET done == add_mempool_transaction(mempool, tx) IN
          /\ mempool' = done.db
          /\ mempool_call' = MempoolCall("add_mempool_transaction", tx, done.result)
    /\ UNCHANGED notMempoolVars

RemoveMempoolTransaction ==
    /\ \E id \in Ids :
          LET done == remove_mempool_transaction(mempool, id) IN
          /\ mempool' = done.db
          /\ mempool_call' = MempoolCall("remove_mempool_transaction", id, done.result)
    /\ UNCHANGED notMempoolVars

HasMempoolTransaction ==
    /\ \E id \in Ids :
          LET done == has_mempool_transaction(mempool, id) IN
          /\ mempool' = done.db
          /\ mempool_call' = MempoolCall("has_mempool_transaction", id, done.result)
    /\ UNCHANGED notMempoolVars

GetMempoolTransaction ==
    /\ \E id \in Ids :
          LET done == get_mempool_transaction(mempool, id) IN
          /\ mempool' = done.db
          /\ mempool_call' = MempoolCall("get_mempool_transaction", id, done.result)
    /\ UNCHANGED notMempoolVars

PopMempoolTransaction ==
    /\ LET done == pop_mempool_transaction(mempool) IN
          /\ mempool' = done.db
          /\ mempool_call' = MempoolCall("pop_mempool_transaction", <<>>, done.result)
    /\ UNCHANGED notMempoolVars

PopMempoolTransactions ==
    /\ \E n \in 1..MaxPop :
          LET done == pop_mempool_transactions(mempool, n) IN
          /\ mempool' = done.db
          /\ mempool_call' = MempoolCall("pop_mempool_transactions", n, done.result)
    /\ UNCHANGED notMempoolVars

MempoolNext ==
    \/ AddMempoolTransaction
    \/ RemoveMempoolTransaction
    \/ HasMempoolTransaction
    \/ GetMempoolTransaction
    \/ PopMempoolTransaction
    \/ PopMempoolTransactions

MempoolSpec == Init /\ [][MempoolNext]_vars

\* The transactions held in the column family mempool_transactions.
Stored(db) ==
    {FromSlice(db.mempool_transactions[k]) : k \in DOMAIN db.mempool_transactions}

\* a is not after b in the order of (timestamp, sequence number).
NotAfter(a, b) ==
    \/ a.timestamp < b.timestamp
    \/ /\ a.timestamp = b.timestamp
       /\ a.transaction.sequence_number <= b.transaction.sequence_number

Min(a, b) == IF a <= b THEN a ELSE b

\* C19: pop_mempool_transaction on an empty mempool returns None; otherwise
\* it returns a stored transaction that no stored transaction precedes in
\* (timestamp, sequence number), and removes it and nothing else.
\* pop_mempool_transactions(n) returns the n first transactions of that
\* order (all of them when fewer are stored), in ascending order, and removes
\* them and nothing else.
C19_PopInKeyOrder ==
    [][/\ mempool_call'.op = "pop_mempool_transaction" =>
            IF Stored(mempool) = {}
            THEN mempool_call'.result = None /\ mempool' = mempool
            ELSE /\ mempool_call'.result.some
                 /\ mempool_call'.result.value \in Stored(mempool)
                 /\ \A other \in Stored(mempool) : NotAfter(mempool_call'.result.value, other)
                 /\ Stored(mempool') = Stored(mempool) \ {mempool_call'.result.value}
       /\ mempool_call'.op = "pop_mempool_transactions" =>
            LET txs == mempool_call'.result IN
            /\ Len(txs) = Min(mempool_call'.arg, Cardinality(Stored(mempool)))
            /\ \A i, j \in DOMAIN txs : i < j => (txs[i] # txs[j] /\ NotAfter(txs[i], txs[j]))
            /\ \A i \in DOMAIN txs :
                  /\ txs[i] \in Stored(mempool)
                  /\ \A rest \in Stored(mempool') : NotAfter(txs[i], rest)
            /\ Stored(mempool') = Stored(mempool) \ {txs[i] : i \in DOMAIN txs}
      ]_vars

\* Three transactions have been popped at once: two of the earlier timestamp
\* in the order of their sequence numbers, then one of the later timestamp,
\* and a transaction is left in the mempool.
C19_Witness ==
    /\ mempool_call.op = "pop_mempool_transactions"
    /\ Len(mempool_call.result) = 3
    /\ mempool_call.result[1].timestamp = 2
    /\ mempool_call.result[1].transaction.sequence_number = 0
    /\ mempool_call.result[2].timestamp = 2
    /\ mempool_call.result[2].transaction.sequence_number = 1
    /\ mempool_call.result[3].timestamp = 10
    /\ Stored(mempool) # {}

\* C20: right after add_mempool_transaction(tx), has_mempool_transaction of
\* tx's id is true and get_mempool_transaction of it returns Some(tx); right
\* after remove_mempool_transaction(id), has_mempool_transaction(id) is false
\* and get_mempool_transaction(id) returns None; both succeed, and removing
\* an id that is not present changes nothing.
C20_AddGetRemoveRoundTrip ==
    [][/\ mempool_call'.op = "add_mempool_transaction" =>
            LET tx == mempool_call'.arg
                id == TransactionId(tx.transaction)
            IN /\ mempool_call'.result = "Ok"
               /\ has_mempool_transaction(mempool', id).result = TRUE
               /\ get_mempool_transaction(mempool', id).result = Some(tx)
       /\ mempool_call'.op = "remove_mempool_transaction" =>
            LET id == mempool_call'.arg IN
            /\ mempool_call'.result = "Ok"
            /\ has_mempool_transaction(mempool', id).result = FALSE
            /\ get_mempool_transaction(mempool', id).result = None
            /\ ~has_mempool_transaction(mempool, id).result => mempool' = mempool
      ]_vars

\* A transaction added at two timestamps has been removed by its id: the id
\* is no longer found, while another transaction is still found by its id.
C20_Witness ==
    /\ mempool_call.op = "remove_mempool_transaction"
    /\ \E tx \in Stored(mempool) : TransactionId(tx.transaction) = mempool_call.arg
    /\ ~has_mempool_transaction(mempool, mempool_call.arg).result
    /\ \E id \in Ids : has_mempool_transaction(mempool, id).result

\* The chain events a turn has taken name transfer id: by an Initiated event
\* of chain 1, by a counterparty Completed event of chain 2.
TookInitiated(t, id) ==
    \E d \in BridgeTransferDetails : d.bridge_transfer_id = id /\ t.c1 = Ready(Initiated(d))

TookCompleted(t, id) ==
    \E d \in CompletedDetails : d.bridge_transfer_id = id /\ t.c2 = Ready(Completed(d))

\* C21: an entry for id appears in the B1->B2 registry only in a turn that
\* takes an Initiated event of id from chain 1, and disappears only in a turn
\* that takes a counterparty Completed event of id from chain 2; every other
\* turn, whatever chain events and tracker events it takes, and every step
\* of a chain leave the registry as it is.
C21_SwapLifecycle ==
    [][/\ \A id \in BridgeTransferIds :
             /\ (~already_executing(active_swaps_b1_to_b2, id)
                     /\ already_executing(active_swaps_b1_to_b2', id))
                   => (IsTurn /\ TookInitiated(turn', id))
             /\ (already_executing(active_swaps_b1_to_b2, id)
                     /\ ~already_executing(active_swaps_b1_to_b2', id))
                   => (IsTurn /\ TookCompleted(turn', id))
       /\ Registry(active_swaps_b1_to_b2') # Registry(active_swaps_b1_to_b2)
             => /\ IsTurn
                /\ \E id \in BridgeTransferIds :
                      \/ TookInitiated(turn', id) /\ turn'.c2 = NotPolled
                      \/ TookCompleted(turn', id)
      ]_vars

\* A turn has taken the tracker's BridgeAssetsLocked event of a tracked swap
\* and the initiator Completed event of the same swap from chain 1, and the
\* swap is still tracked.
C21_Witness ==
    \E id \in BridgeTransferIds :
        /\ turn.t12 = Ready(BridgeAssetsLocked(id))
        /\ turn.c1 = Ready(InitiatorCompleted(id))
        /\ Tracked(turn.pre12, id)
        /\ already_executing(active_swaps_b1_to_b2, id)

\* The claim calls for transfer id among the calls a turn has dispatched.
ClaimCalls(t, id) ==
    {i \in DOMAIN t.calls : /\ t.calls[i].op = "complete_bridge_transfer"
                            /\ t.calls[i].bridge_transfer_id = id}

\* C22: a turn that takes a counterparty Completed event of id from chain 2
\* dispatches one claim call, on chain 1, when id is tracked, and then id is
\* tracked no longer; when id is not tracked it dispatches nothing and
\* returns CannotCompleteUnexistingSwap.  No other turn dispatches a claim
\* call.  So a registration of id is claimed at most once, however often
\* Completed of id is delivered.
C22_AtMostOneClaim ==
    [][IsTurn =>
        \A id \in BridgeTransferIds :
           /\ ClaimCalls(turn', id) # {}
                 => /\ TookCompleted(turn', id)
                    /\ already_executing(active_swaps_b1_to_b2, id)
                    /\ ~already_executing(active_swaps_b1_to_b2', id)
                    /\ Cardinality(ClaimCalls(turn', id)) = 1
                    /\ \A i \in ClaimCalls(turn', id) : turn'.calls[i].chain = 1
           /\ \A d \in CompletedDetails :
                 (/\ d.bridge_transfer_id = id
                  /\ turn'.c2 = Ready(Completed(d))
                  /\ ~already_executing(active_swaps_b1_to_b2, id))
                     => /\ turn'.ret = Ready(B2C_Warn_CannotCompleteUnexistingSwap(d))
                        /\ turn'.calls = <<>>
                        /\ Len(active_swaps_b1_to_b2'.calls)
                               <= Len(active_swaps_b1_to_b2.calls)
      ]_vars

\* A second Completed event of a transfer has been answered with
\* CannotCompleteUnexistingSwap while the claim call of the first one is
\* still in flight.
C22_Witness ==
    \E d \in CompletedDetails :
        /\ turn.c2 = Ready(Completed(d))
        /\ turn.ret = Ready(B2C_Warn_CannotCompleteUnexistingSwap(d))
        /\ \E i \in DOMAIN active_swaps_b1_to_b2.calls :
              /\ active_swaps_b1_to_b2.calls[i].op = "complete_bridge_transfer"
              /\ active_swaps_b1_to_b2.calls[i].bridge_transfer_id = d.bridge_transfer_id

\* Transfer id has been completed and removed: its claim call is in flight
\* and the tracker holds no entry for it.
CompletedAndRemoved(map, id) ==
    /\ ~already_executing(map, id)
    /\ \E i \in DOMAIN map.calls :
          /\ map.calls[i].op = "complete_bridge_transfer"
          /\ map.calls[i].bridge_transfer_id = id

\* C23: a turn that takes from chain 1 an Initiated event of a transfer that
\* has been completed and removed does not answer AlreadyPresent: it returns
\* the event as a fresh initiator event, tracks the transfer again with the
\* details of the new event and dispatches a new lock call on chain 2.
C23_ReplayedInitiatedIsRegisteredAgain ==
    [][IsTurn =>
        \A d \in BridgeTransferDetails :
           (/\ CompletedAndRemoved(active_swaps_b1_to_b2, d.bridge_transfer_id)
            /\ turn'.c1 = Ready(Initiated(d)))
               => /\ turn'.ret = Ready(B1I_ContractEvent(Initiated(d)))
                  /\ turn'.calls = <<LockCall(active_swaps_b1_to_b2, d)>>
                  /\ turn'.calls[1].chain = 2
                  /\ \E i \in DOMAIN Registry(active_swaps_b1_to_b2') :
                        Registry(active_swaps_b1_to_b2')[i] = d
      ]_vars

\* A transfer has been initiated, completed and initiated again: it is
\* tracked while the claim call of its first round is still in flight, and
\* the last turn has returned its Initiated event.
C23_Witness ==
    \E d \in BridgeTransferDetails :
        /\ turn.c1 = Ready(Initiated(d))
        /\ turn.ret = Ready(B1I_ContractEvent(Initiated(d)))
        /\ already_executing(active_swaps_b1_to_b2, d.bridge_transfer_id)
        /\ \E i \in DOMAIN active_swaps_b1_to_b2.calls :
              /\ active_swaps_b1_to_b2.calls[i].op = "complete_bridge_transfer"
              /\ active_swaps_b1_to_b2.calls[i].bridge_transfer_id = d.bridge_transfer_id

(***************************************************************************)
(* The scheduler of spec 5.  poll_next hands its Context to every source   *)
(* it polls; a source that returns Poll::Pending keeps the waker and wakes *)
(* the task when it has new data.  A source that returned an item, or the  *)
(* end of its stream, holds no waker.                                      *)
(***************************************************************************)
\* The stream has something to return: an event, or its end.
HasData(b) == b.queue # <<>> \/ b.ended

\* The task is scheduled: it has not been polled yet, or its consumer has
\* just received an item and asks for the next one, or a source that
\* returned Poll::Pending in the last turn has new data since (a tracker:
\* has calls in flight, whose outcomes arrive at any time).
Woken ==
    \/ turn.ret.poll # "Pending"
    \/ turn.c1 = Pending /\ HasData(blockchain_1)
    \/ turn.c2 = Pending /\ HasData(blockchain_2)
    \/ turn.t12 = Pending /\ active_swaps_b1_to_b2.calls # <<>>
    \/ turn.t21 = Pending /\ active_swaps_b2_to_b1.calls # <<>>

WokenPollNext == Woken /\ PollNext

NextWoken ==
    \/ WokenPollNext
    \/ Blockchain1Emits
    \/ Blockchain2Emits
    \/ Blockchain1Ends
    \/ Blockchain2Ends

\* The scheduler runs the task whenever it is woken.
WakeSpec == Init /\ [][NextWoken]_vars /\ WF_vars(WokenPollNext)

\* The next event of a chain's stream is ev.
NextEvent(b, ev) == b.queue # <<>> /\ Head(b.queue) = ev

\* The events of a chain that produce an output.
Chain1OutputEvents ==
    {Initiated(d) : d \in BridgeTransferDetails}
        \cup {InitiatorCompleted(id) : id \in BridgeTransferIds}

Chain2OutputEvents == BridgeContractCounterpartyEvent

\* C24: with a scheduler that runs poll_next only when the task is woken,
\* an Initiated or initiator Completed event that is the next event of chain
\* 1, and a Locked or Completed event that is the next event of chain 2, is
\* eventually taken by a turn that returns an item (runs ended by a panic
\* set aside).
C24_NoLostWakeup ==
    /\ \A ev \in Chain1OutputEvents :
          NextEvent(blockchain_1, ev)
              ~> ((turn.c1 = Ready(ev) /\ turn.ret.poll = "Ready") \/ panicked)
    /\ \A ev \in Chain2OutputEvents :
          NextEvent(blockchain_2, ev)
              ~> ((turn.c2 = Ready(ev) /\ turn.ret.poll = "Ready") \/ panicked)

(***************************************************************************)
(* A busy chain 1: whenever its stream has been drained it makes another   *)
(* initiator Completed event ready (forwarded as an output by lines        *)
(* 183-189), without bound.                                                *)
(***************************************************************************)
Blockchain1Floods ==
    /\ ~blockchain_1.ended
    /\ blockchain_1.queue = <<>>
    /\ \E id \in BridgeTransferIds :
          blockchain_1' = Emit(blockchain_1, InitiatorCompleted(id))
    /\ UNCHANGED <<active_swaps_b1_to_b2, active_swaps_b2_to_b1, blockchain_2, turn,
                   panicked, emitted>>
    /\ UNCHANGED notBridgeVars

NextFlood ==
    \/ PollNext
    \/ Blockchain1Emits
    \/ Blockchain2Emits
    \/ Blockchain1Ends
    \/ Blockchain2Ends
    \/ Blockchain1Floods

\* The consumer keeps polling while chain 1 stays busy.
FloodSpec == Init /\ [][NextFlood]_vars /\ WF_vars(PollNext)

\* C25: under repeated polling, the events chain 2 has made ready are all
\* eventually taken by the orchestrator, however busy chain 1 is (runs ended
\* by a panic set aside).  Chain 2 emits at most MaxEvents events, so each
\* of them is taken exactly when its stream is eventually drained.
C25_Chain1CannotStarveChain2 ==
    (blockchain_2.queue # <<>>) ~> (blockchain_2.queue = <<>> \/ panicked)

\* C26: a turn returns one poll result.  A turn that returns an item made of
\* a chain-1 event (Initiated, AlreadyPresent, initiator Completed) has not
\* polled chain 2 and leaves its stream as it was; a turn that takes a
\* Locked or Completed event from chain 2 returns the item made of that
\* event.
C26_OneOutputPerTurnNoneLost ==
    [][IsTurn =>
         /\ (turn'.ret.poll = "Ready" /\ turn'.ret.item.tag = "B1I")
               => /\ turn'.c2 = NotPolled
                  /\ blockchain_2' = blockchain_2
         /\ (turn'.c2.poll = "Ready" /\ turn'.c2.item \in Chain2OutputEvents)
               => /\ blockchain_2.queue # <<>>
                  /\ turn'.c2.item = Head(blockchain_2.queue)
                  /\ turn'.ret.poll = "Ready"
                  /\ turn'.ret.item.tag = "B2C"
                  /\ ItemEvent(turn'.ret.item) = turn'.c2.item
      ]_vars

\* A turn has returned a chain-1 item while a counterparty event was ready on
\* chain 2, and has left it there.
C26_Witness ==
    /\ turn.ret.poll = "Ready"
    /\ turn.ret.item.tag = "B1I"
    /\ turn.c2 = NotPolled
    /\ blockchain_2.queue # <<>>
    /\ Head(blockchain_2.queue) \in Chain2OutputEvents

\* C27: poll_next calls no operation of the B2->B1 tracker, which stays as
\* it was built: no entry, no call in flight.  A turn that takes an initiator
\* Initiated event from chain 2 returns Poll::Pending, calls no tracker
\* operation, dispatches no call and leaves the B1->B2 registry as it was.
C27_B2ToB1NeverDriven ==
    /\ \A i \in DOMAIN turn.ops : turn.ops[i].tracker = "b1_to_b2"
    /\ active_swaps_b2_to_b1 = BridgeServiceNew.active_swaps_b2_to_b1
    /\ Registry(active_swaps_b2_to_b1) = <<>>
    /\ \A d \in BridgeTransferDetails :
          turn.c2 = Ready(Initiated(d))
              => /\ turn.ret = Pending
                 /\ turn.ops = <<>>
                 /\ turn.calls = <<>>
                 /\ Registry(active_swaps_b1_to_b2) = turn.pre12

\* An Initiated event of chain 2 has been taken, for a transfer no tracker
\* holds.
C27_Witness ==
    \E d \in BridgeTransferDetails :
        /\ turn.c2 = Ready(Initiated(d))
        /\ turn.ret = Pending
        /\ ~already_executing(active_swaps_b1_to_b2, d.bridge_transfer_id)
        /\ ~already_executing(active_swaps_b2_to_b1, d.bridge_transfer_id)

\* C28: a turn that takes a counterparty event (Locked or Completed) from
\* chain 1 goes on to poll chain 2, and whatever it returns or does comes
\* from chain 2: an item it returns is the B2C item of the event it took
\* from chain 2, a tracker operation it calls is the complete_bridge_transfer
\* of a Completed event of chain 2, and when chain 2 had no event ready it
\* returns Poll::Pending, calls no tracker operation, dispatches no call and
\* leaves both registries as they were.
C28_CounterpartyEventOnChain1IsTracedOnly ==
    \A ev \in BridgeContractCounterpartyEvent :
        turn.c1 = Ready(ev)
            => /\ turn.c2 # NotPolled
               /\ turn.ret.poll \in {"Ready", "Pending"}
               /\ turn.ret.poll = "Ready"
                     => /\ turn.c2.poll = "Ready"
                        /\ turn.ret.item.tag = "B2C"
                        /\ ItemEvent(turn.ret.item) = turn.c2.item
               /\ \A i \in DOMAIN turn.ops :
                     /\ turn.ops[i].op = "complete_bridge_transfer"
                     /\ turn.c2.poll = "Ready"
                     /\ turn.c2.item.kind = "Completed"
                     /\ turn.c2.item.contract = "Counterparty"
                     /\ turn.ops[i].bridge_transfer_id
                            = turn.c2.item.details.bridge_transfer_id
               /\ turn.c2.poll # "Ready"
                     => /\ turn.ret = Pending
                        /\ turn.ops = <<>>
                        /\ turn.calls = <<>>
                        /\ RegistriesUnchanged

\* A counterparty Completed event of chain 1, for a tracked transfer, has
\* been taken in a turn in which chain 2 had nothing ready, and the transfer
\* is still tracked.
C28_Witness ==
    \E d \in CompletedDetails :
        /\ turn.c1 = Ready(Completed(d))
        /\ turn.c2 = Pending
        /\ turn.ret = Pending
        /\ Tracked(turn.pre12, d.bridge_transfer_id)
        /\ already_executing(active_swaps_b1_to_b2, d.bridge_transfer_id)

\* C29: a turn that takes an initiator Completed event from chain 1 returns
\* it as it is, as a B1I ContractEvent item, calls no tracker operation,
\* dispatches no call and leaves both registries as they were, whether the
\* transfer is tracked or not.
C29_InitiatorCompletedIsForwarded ==
    \A id \in BridgeTransferIds :
        turn.c1 = Ready(InitiatorCompleted(id))
            => /\ turn.ret = Ready(B1I_ContractEvent(InitiatorCompleted(id)))
               /\ turn.ops = <<>>
               /\ turn.calls = <<>>
               /\ RegistriesUnchanged

\* The initiator Completed event of a tracked transfer has been forwarded
\* and the transfer is still tracked.
C29_Witness ==
    \E id \in BridgeTransferIds :
        /\ turn.ret = Ready(B1I_ContractEvent(InitiatorCompleted(id)))
        /\ Tracked(turn.pre12, id)
        /\ already_executing(active_swaps_b1_to_b2, id)

\* C30: every item a turn returns is a B1I item made of the initiator event
\* the turn took from chain 1 (the AlreadyPresent warning: of its Initiated
\* event) or a B2C item made of the counterparty event the turn took from
\* chain 2 (the CannotCompleteUnexistingSwap warning: of its Completed
\* event).  So no item is made of a tracker event, of a counterparty event of
\* chain 1 or of an initiator event of chain 2.
C30_OutputsAreTaggedByOrigin ==
    turn.ret.poll = "Ready"
        => LET item == turn.ret.item IN
           /\ item.tag \in {"B1I", "B2C"}
           /\ item.tag = "B1I"
                 => /\ turn.c1.poll = "Ready"
                    /\ turn.c1.item \in BridgeContractInitiatorEvent
                    /\ ItemEvent(item) = turn.c1.item
                    /\ item.variant = "Warn" => item.warn = "AlreadyPresent"
           /\ item.tag = "B2C"
                 => /\ turn.c2.poll = "Ready"
                    /\ turn.c2.item \in BridgeContractCounterpartyEvent
                    /\ ItemEvent(item) = turn.c2.item
                    /\ item.variant = "Warn" => item.warn = "CannotCompleteUnexistingSwap"

\* A turn has taken a tracker event and a counterparty event from chain 1,
\* and has returned the item of the counterparty event it took from chain 2.
C30_Witness ==
    /\ turn.t12.poll = "Ready"
    /\ turn.c1.poll = "Ready"
    /\ turn.c1.item \in BridgeContractCounterpartyEvent
    /\ turn.ret.poll = "Ready"
    /\ turn.ret.item.tag = "B2C"
    /\ ItemEvent(turn.ret.item) = turn.c2.item

\* A transaction with this id is held in mempool_transactions, where pop
\* finds it.
StoredWithId(db, id) == \E tx \in Stored(db) : TransactionId(tx.transaction) = id

\* C31: after any sequence of add, remove and pop, has_mempool_transaction
\* of an id is true exactly when a transaction with that id is stored and
\* can be returned by pop.
C31_LookupMatchesTable ==
    \A id \in Ids :
        has_mempool_transaction(mempool, id).result <=> StoredWithId(mempool, id)

(***************************************************************************)
(* Tasks that share one RocksdbMempool (&self).  The db locks each of its  *)
(* calls, not an operation of the mempool: between two db calls of one     *)
(* task another task may run.  Each task calls one operation; each         *)
(* transaction is added once, by a caller of its own.                      *)
(***************************************************************************)
\* add_mempool_transaction(tx), for a transaction not added before: the
\* put_cf on mempool_transactions.
AddPutRow ==
    /\ Cardinality(added) < MaxAdded
    /\ \E tx \in MempoolTransaction \ added :
          /\ mempool' = [mempool EXCEPT !.mempool_transactions =
                             put_cf(@, construct_mempool_transaction_key(tx), ToVec(tx))]
          /\ added' = added \cup {tx}
          /\ adding' = adding \cup {tx}
    /\ UNCHANGED tasks
    /\ UNCHANGED notRaceVars

\* add_mempool_transaction: the put_cf on transaction_lookups, and Ok(()).
AddPutLookup ==
    /\ \E tx \in adding :
          /\ mempool' = [mempool EXCEPT !.transaction_lookups =
                             put_cf(@, TransactionId(tx.transaction),
                                    construct_mempool_transaction_key(tx))]
          /\ adding' = adding \ {tx}
    /\ UNCHANGED <<tasks, added>>
    /\ UNCHANGED notRaceVars

\* pop_mempool_transaction: iterator_cf(.., Start) and iter.next().
PopIterNext ==
    /\ \E t \in Tasks :
          /\ tasks[t] = Idle
          /\ IF DOMAIN mempool.mempool_transactions = {}
             THEN tasks' = [tasks EXCEPT ![t] =
                               [pc |-> "done", op |-> "pop_mempool_transaction",
                                result |-> None]]
             ELSE LET key == FirstKey(mempool.mempool_transactions) IN
                  tasks' = [tasks EXCEPT ![t] =
                               [pc |-> "pop_delete", op |-> "pop_mempool_transaction",
                                key |-> key,
                                tx |-> FromSlice(mempool.mempool_transactions[key])]]
    /\ UNCHANGED <<mempool, added, adding>>
    /\ UNCHANGED notRaceVars

\* pop_mempool_transaction: self.db.delete_cf(&cf_handle, &key)
PopDelete ==
    /\ \E t \in Tasks :
          /\ tasks[t].pc = "pop_delete"
          /\ mempool' = [mempool EXCEPT !.mempool_transactions = delete_cf(@, tasks[t].key)]
          /\ tasks' = [tasks EXCEPT ![t].pc = "pop_delete_lookup"]
    /\ UNCHANGED <<added, adding>>
    /\ UNCHANGED notRaceVars

\* pop_mempool_transaction: the delete_cf on transaction_lookups, and
\* Ok(Some(tx)).
PopDeleteLookup ==
    /\ \E t \in Tasks :
          /\ tasks[t].pc = "pop_delete_lookup"
          /\ mempool' = [mempool EXCEPT !.transaction_lookups =
                             delete_cf(@, TransactionId(tasks[t].tx.transaction))]
          /\ tasks' = [tasks EXCEPT ![t] =
                           [pc |-> "done", op |-> "pop_mempool_transaction",
                            result |-> Some(tasks[t].tx)]]
    /\ UNCHANGED <<added, adding>>
    /\ UNCHANGED notRaceVars

\* remove_mempool_transaction(id): get_mempool_transaction_key.
RemoveGetKey ==
    /\ \E t \in Tasks, id \in Ids :
          /\ tasks[t] = Idle
          /\ LET key == get_mempool_transaction_key(mempool, id) IN
             IF key.some
             THEN tasks' = [tasks EXCEPT ![t] =
                               [pc |-> "remove_delete", op |-> "remove_mempool_transaction",
                                id |-> id, key |-> key.value]]
             ELSE tasks' = [tasks EXCEPT ![t] =
                               [pc |-> "done", op |-> "remove_mempool_transaction",
                                result |-> "Ok"]]
    /\ UNCHANGED <<mempool, added, adding>>
    /\ UNCHANGED notRaceVars

\* remove_mempool_transaction: self.db.delete_cf(&cf_handle, k)
RemoveDelete ==
    /\ \E t \in Tasks :
          /\ tasks[t].pc = "remove_delete"
          /\ mempool' = [mempool EXCEPT !.mempool_transactions = delete_cf(@, tasks[t].key)]
          /\ tasks' = [tasks EXCEPT ![t].pc = "remove_delete_lookup"]
    /\ UNCHANGED <<added, adding>>
    /\ UNCHANGED notRaceVars

\* remove_mempool_transaction: the delete_cf on transaction_lookups, and
\* Ok(()).
RemoveDeleteLookup ==
    /\ \E t \in Tasks :
          /\ tasks[t].pc = "remove_delete_lookup"
          /\ mempool' = [mempool EXCEPT !.transaction_lookups = delete_cf(@, tasks[t].id)]
          /\ tasks' = [tasks EXCEPT ![t] =
                           [pc |-> "done", op |-> "remove_mempool_transaction",
                            result |-> "Ok"]]
    /\ UNCHANGED <<added, adding>>
    /\ UNCHANGED notRaceVars

RaceNext ==
    \/ AddPutRow
    \/ AddPutLookup
    \/ PopIterNext
    \/ PopDelete
    \/ PopDeleteLookup
    \/ RemoveGetKey
    \/ RemoveDelete
    \/ RemoveDeleteLookup

RaceSpec == Init /\ [][RaceNext]_vars

\* Task t has returned Some(tx) from pop_mempool_transaction.
Popped(t, tx) ==
    /\ tasks[t].pc = "done"
    /\ tasks[t].op = "pop_mempool_transaction"
    /\ tasks[t].result = Some(tx)

\* C32: each transaction is added once, and no two tasks have both returned
\* the same transaction from pop_mempool_transaction, however their calls of
\* the db interleave.
C32_PoppedAtMostOnce ==
    \A t1, t2 \in Tasks : \A tx \in MempoolTransaction :
        (Popped(t1, tx) /\ Popped(t2, tx)) => t1 = t2

(***************************************************************************)
(* run_executor: try_join!(write_transactions_to_da, read_blocks_from_da). *)
(* Between two awaits a function runs without interruption; while it is    *)
(* suspended the other one, the DA stream and the senders of transactions  *)
(* go on.  When one of the two returns an error, try_join! returns it and  *)
(* the other is dropped where it is suspended.                             *)
(***************************************************************************)
\* One of the two futures has returned an error: run_executor is over.
RunExecutorReturned ==
    \/ tick.ret = "Err"
    \/ read_blocks.pc = "returned" /\ read_blocks.ret = "Err"

TickWaits == tick_task.pc = "write_lock"

ReadWaits == read_blocks.pc = "starting" /\ read_blocks_await.op = "write_lock"

\* read_blocks_from_da goes to state: the tick and the write guard after
\* the step, with the guard at lock when the function goes on.
ReadGoesTo(state, lock) ==
    /\ read_blocks' = state
    /\ IF state.pc = "returned" /\ state.ret = "Err"
       THEN /\ tick_task' = DropTick(tick_task)
            /\ light_node_client' = Free
       ELSE /\ tick_task' = tick_task
            /\ light_node_client' = lock

\* The tick goes on or returns, as resumed tells: read_blocks_from_da and
\* the write guard after the step.
TickGoesTo(resumed) ==
    /\ tick_task' = resumed.task
    /\ tick' = IF resumed.ret = "none" THEN tick
               ELSE [received |-> resumed.received, ret |-> resumed.ret]
    /\ IF resumed.ret = "Err"
       THEN /\ read_blocks' = DropRead(read_blocks)
            /\ light_node_client' = Free
       ELSE /\ read_blocks' = read_blocks
            /\ light_node_client' = resumed.lock

\* read_blocks_from_da is polled for the first time: it calls
\* get_block_head_height.
ReadBlocksStart ==
    /\ read_blocks.pc = "not_started"
    /\ ~RunExecutorReturned
    /\ read_blocks' = Starting
    /\ read_blocks_await' = AwaitStart("get_block_head_height")
    /\ UNCHANGED <<da_stream, block_calls, daWriteVars, light_node_client>>
    /\ UNCHANGED notExecutorVars

\* get_block_head_height or stream_read_from_height returns.
StartCallReturns ==
    /\ read_blocks.pc = "starting"
    /\ read_blocks_await.op \in {"get_block_head_height", "stream_read_from_height"}
    /\ \E result \in Results :
          LET resumed == start_resume(read_blocks_await, result, light_node_client,
                                      TickWaits) IN
          /\ read_blocks_await' = resumed.await
          /\ ReadGoesTo(resumed.state, resumed.lock)
    /\ UNCHANGED <<da_stream, block_calls, transaction_channel, da_writes, tick>>
    /\ UNCHANGED notExecutorVars

\* The tick has released the write guard to read_blocks_from_da, which
\* calls stream_read_from_height.
ReadBlocksLocks ==
    /\ ReadWaits
    /\ light_node_client = "read_blocks"
    /\ read_blocks_await' = AwaitStart("stream_read_from_height")
    /\ UNCHANGED <<da_stream, read_blocks, block_calls, daWriteVars, light_node_client>>
    /\ UNCHANGED notExecutorVars

\* The DA light node makes one more item ready on the stream; blobs are
\* numbered in stream order.
DaStreamsBlob ==
    /\ ~da_stream.ended
    /\ da_stream.count < MaxBlobs
    /\ \E kind \in BlobKinds :
          da_stream' = [da_stream EXCEPT
                           !.queue = Append(@, Blob(da_stream.count + 1, kind)),
                           !.count = @ + 1]
    /\ UNCHANGED <<read_blocks, read_blocks_await, block_calls, daWriteVars,
                   light_node_client>>
    /\ UNCHANGED notExecutorVars

DaStreamEnds ==
    /\ ~da_stream.ended
    /\ da_stream' = [da_stream EXCEPT !.ended = TRUE]
    /\ UNCHANGED <<read_blocks, read_blocks_await, block_calls, daWriteVars,
                   light_node_client>>
    /\ UNCHANGED notExecutorVars

\* stream.next() returns Some(blob): the blob is checked and
\* build_block_metadata is called.
ReadBlock ==
    /\ read_blocks.pc = "running"
    /\ read_blocks_await = NoAwait
    /\ da_stream.queue # <<>>
    /\ LET taken == take_blob(Head(da_stream.queue)) IN
       /\ read_blocks_await' = taken.await
       /\ ReadGoesTo(taken.state, light_node_client)
    /\ da_stream' = [da_stream EXCEPT !.queue = Tail(@)]
    /\ UNCHANGED <<block_calls, transaction_channel, da_writes, tick>>
    /\ UNCHANGED notExecutorVars

\* build_block_metadata, execute_block_opt or post_block_commitment
\* returns to the function.
CallReturns ==
    /\ read_blocks.pc = "running"
    /\ read_blocks_await # NoAwait
    /\ \E result \in Results :
          LET resumed == resume(block_calls, read_blocks_await, result) IN
          /\ block_calls' = resumed.calls
          /\ read_blocks_await' = resumed.await
          /\ ReadGoesTo(resumed.state, light_node_client)
    /\ UNCHANGED <<da_stream, transaction_channel, da_writes, tick>>
    /\ UNCHANGED notExecutorVars

\* stream.next() returns None: Ok(()).
ReadBlocksEnd ==
    /\ read_blocks.pc = "running"
    /\ read_blocks_await = NoAwait
    /\ da_stream.queue = <<>>
    /\ da_stream.ended
    /\ read_blocks' = Returned_Ok
    /\ UNCHANGED <<da_stream, read_blocks_await, block_calls, daWriteVars,
                   light_node_client>>
    /\ UNCHANGED notExecutorVars

\* The executor sends a transaction into the channel; transactions are
\* numbered in the order they are sent.
SendTransaction ==
    /\ transaction_channel.count < MaxTransactions
    /\ \E serializable \in BOOLEAN :
          transaction_channel' =
              [queue |-> Append(transaction_channel.queue,
                                SignedTransaction(transaction_channel.count + 1,
                                                  serializable)),
               count |-> transaction_channel.count + 1]
    /\ UNCHANGED <<da_writes, tick_task, tick, daReadVars, light_node_client>>
    /\ UNCHANGED notExecutorVars

\* write_transactions_to_da calls tick_write_transactions_to_da, which is
\* suspended in its first recv().
TickStarts ==
    /\ tick_task = NoTickTask
    /\ ~RunExecutorReturned
    /\ tick_task' = Receiving(<<>>, <<>>)
    /\ UNCHANGED <<transaction_channel, da_writes, tick, daReadVars, light_node_client>>
    /\ UNCHANGED notExecutorVars

\* recv() returns the first transaction of the channel.
TickReceives ==
    /\ tick_task.pc = "recv"
    /\ transaction_channel.queue # <<>>
    /\ \E time_over \in BOOLEAN :
          TickGoesTo(recv_returns(tick_task, Head(transaction_channel.queue),
                                  time_over, light_node_client))
    /\ transaction_channel' = [transaction_channel EXCEPT !.queue = Tail(@)]
    /\ UNCHANGED <<da_writes, da_stream, read_blocks_await, block_calls>>
    /\ UNCHANGED notExecutorVars

\* No transaction has come within the 100 ms of the timeout.
TickRecvTimesOut ==
    /\ tick_task.pc = "recv"
    /\ transaction_channel.queue = <<>>
    /\ TickGoesTo(recv_times_out(tick_task, light_node_client))
    /\ UNCHANGED <<transaction_channel, da_writes, da_stream, read_blocks_await,
                   block_calls>>
    /\ UNCHANGED notExecutorVars

\* read_blocks_from_da has released the write guard to the tick, which
\* calls batch_write.
TickLocks ==
    /\ TickWaits
    /\ light_node_client = "tick"
    /\ tick_task' = write_lock_granted(tick_task)
    /\ UNCHANGED <<transaction_channel, da_writes, tick, daReadVars, light_node_client>>
    /\ UNCHANGED notExecutorVars

\* The light node answers batch_write.
BatchWriteReturns ==
    /\ tick_task.pc = "batch_write"
    /\ \E result \in Results :
          LET resumed == batch_write_returns(tick_task, da_writes, result, ReadWaits) IN
          /\ TickGoesTo(resumed)
          /\ da_writes' = resumed.writes
    /\ UNCHANGED <<transaction_channel, da_stream, read_blocks_await, block_calls>>
    /\ UNCHANGED notExecutorVars

RunExecutorNext ==
    \/ ReadBlocksStart
    \/ StartCallReturns
    \/ ReadBlocksLocks
    \/ DaStreamsBlob
    \/ DaStreamEnds
    \/ ReadBlock
    \/ CallReturns
    \/ ReadBlocksEnd
    \/ SendTransaction
    \/ TickStarts
    \/ TickReceives
    \/ TickRecvTimesOut
    \/ TickLocks
    \/ BatchWriteReturns

RunExecutorSpec == Init /\ [][RunExecutorNext]_vars

\* The calls the loop of read_blocks_from_da has made, in order: those that
\* have returned and the one it is suspended in.
CallsMade ==
    IF read_blocks_await.op \in {"build_block_metadata", "execute_block_opt",
                                 "post_block_commitment"}
    THEN Append(block_calls, BlockCall(read_blocks_await.op,
                                       read_blocks_await.blob.blob_id, "pending"))
    ELSE block_calls

\* The positions in CallsMade of the calls of op.
CallsOf(op) == {i \in DOMAIN CallsMade : CallsMade[i].op = op}

\* C33: blocks are executed in the order of the DA stream, one after the
\* other from the first; post_block_commitment is called only for the block
\* whose execution has just succeeded; execute_block_opt is called for a
\* block only after the commitment of the block before it has been posted
\* with success; a failed call is the last call, the function has then
\* returned its error, and after its return, or once it is dropped, the
\* function makes no call.
C33_BlocksInStreamOrder ==
    /\ [](/\ \A i \in CallsOf("execute_block_opt") :
                 /\ CallsMade[i].block
                       = Cardinality({j \in CallsOf("execute_block_opt") : j <= i})
                 /\ \A j \in 1..(i - 1) : CallsMade[j].result = "Ok"
                 /\ CallsMade[i].block > 1
                       => \E j \in CallsOf("post_block_commitment") :
                             /\ j < i
                             /\ CallsMade[j].block = CallsMade[i].block - 1
           /\ \A k \in CallsOf("post_block_commitment") :
                 /\ k > 1
                 /\ CallsMade[k - 1]
                       = BlockCall("execute_block_opt", CallsMade[k].block, "Ok")
           /\ \A n \in DOMAIN CallsMade :
                 CallsMade[n].result = "Err"
                     => /\ n = Len(CallsMade)
                        /\ read_blocks.pc = "returned"
                        /\ read_blocks.ret = "Err"
                        /\ read_blocks.error = CallsMade[n].op)
    /\ [][read_blocks.pc \in {"returned", "dropped"}
            => /\ block_calls' = block_calls
               /\ read_blocks_await' = read_blocks_await
               /\ read_blocks' = read_blocks]_vars

\* Two blocks have been executed and committed, and the execution of the
\* third has failed: the function has returned the error without posting.
C33_Witness ==
    /\ Len(block_calls) = 8
    /\ block_calls[3] = BlockCall("post_block_commitment", 1, "Ok")
    /\ block_calls[5] = BlockCall("execute_block_opt", 2, "Ok")
    /\ block_calls[8] = BlockCall("execute_block_opt", 3, "Err")
    /\ read_blocks = Returned_Err("execute_block_opt")
    /\ read_blocks_await = NoAwait

\* The step is the return of a tick.
TickReturns == tick_task.pc \in {"recv", "batch_write"} /\ tick_task'.pc = "idle"

\* The step takes a transaction out of the channel.
TakesTransaction ==
    /\ transaction_channel'.count = transaction_channel.count
    /\ transaction_channel' # transaction_channel

\* The transactions waiting in the channel.
Waiting(channel) == {channel.queue[i] : i \in DOMAIN channel.queue}

\* C34: a tick takes its transactions from the front of the channel, one
\* at a time; a tick that succeeds after receiving transactions has issued
\* one batch_write with their serializations in receive order; a tick that
\* receives none issues no batch_write; and after a tick that fails, the
\* transactions it received are still waiting in the channel for a later
\* tick.
C34_NoTransactionDropped ==
    [][/\ TakesTransaction
            => /\ tick_task.pc = "recv"
               /\ transaction_channel'.queue = Tail(transaction_channel.queue)
               /\ (IF TickReturns THEN tick'.received ELSE tick_task'.received)
                      = Append(tick_task.received, Head(transaction_channel.queue))
       /\ TickReturns =>
            LET received == tick'.received IN
            /\ (tick'.ret = "Ok" /\ received # <<>>)
                  => da_writes'
                        = Append(da_writes,
                                 [request |-> BatchWriteRequest(
                                                 [i \in DOMAIN received |->
                                                     BlobWrite(to_vec(received[i]).value)]),
                                  result |-> "Ok"])
            /\ received = <<>> => da_writes' = da_writes
            /\ tick'.ret = "Err"
                  => \A i \in DOMAIN received : received[i] \in Waiting(transaction_channel')
       /\ ~TickReturns => da_writes' = da_writes
      ]_vars

(***************************************************************************)
(* read_commitment_events and the stream it reads.                         *)
(***************************************************************************)
\* The settlement manager makes one more item ready on the stream.
CommitmentEventArrives ==
    /\ ~commitment_events.ended
    /\ commitment_events.count < MaxCommitmentEvents
    /\ \E item \in CommitmentItems :
          commitment_events' = [commitment_events EXCEPT !.queue = Append(@, item),
                                                         !.count = @ + 1]
    /\ UNCHANGED <<finalized_block_height, commitment_task>>
    /\ UNCHANGED notCommitmentVars

CommitmentStreamEnds ==
    /\ ~commitment_events.ended
    /\ commitment_events' = [commitment_events EXCEPT !.ended = TRUE]
    /\ UNCHANGED <<finalized_block_height, commitment_task>>
    /\ UNCHANGED notCommitmentVars

\* stream.next() returns Some(res): one iteration of the loop.
ReadCommitmentEvent ==
    /\ commitment_task.pc = "running"
    /\ commitment_events.queue # <<>>
    /\ \E set_result \in Results :
          LET done == handle_commitment_event(finalized_block_height,
                                              Head(commitment_events.queue), set_result) IN
          /\ finalized_block_height' = done.height
          /\ commitment_task' = done.state
    /\ commitment_events' = [commitment_events EXCEPT !.queue = Tail(@)]
    /\ UNCHANGED notCommitmentVars

\* stream.next() returns None: Ok(()).
ReadCommitmentEventsEnd ==
    /\ commitment_task.pc = "running"
    /\ commitment_events.queue = <<>>
    /\ commitment_events.ended
    /\ commitment_task' = Returned_Ok
    /\ UNCHANGED <<commitment_events, finalized_block_height>>
    /\ UNCHANGED notCommitmentVars

CommitmentNext ==
    \/ CommitmentEventArrives
    \/ CommitmentStreamEnds
    \/ ReadCommitmentEvent
    \/ ReadCommitmentEventsEnd

CommitmentSpec == Init /\ [][CommitmentNext]_vars

\* The step takes an item from the commitment event stream.
TakesCommitmentEvent ==
    /\ commitment_events.queue # <<>>
    /\ commitment_events'.queue = Tail(commitment_events.queue)
    /\ commitment_events'.count = commitment_events.count

\* C35: the task takes the items in stream order.  A step that takes an
\* Accepted item either sets the finalized height to its height and goes on,
\* or returns the error of set_finalized_block_height; a Rejected item
\* leaves the height as it was and the task goes on; an error item leaves
\* the height as it was and the task returns the error.  No other step
\* changes the height, and a task that has returned takes no item.
C35_OnlyAcceptedMovesFinalizedHeight ==
    [][/\ TakesCommitmentEvent =>
            LET item == Head(commitment_events.queue) IN
            /\ commitment_task.pc = "running"
            /\ item.kind = "Accepted"
                  => \/ /\ finalized_block_height' = item.height
                        /\ commitment_task' = Running
                     \/ /\ finalized_block_height' = finalized_block_height
                        /\ commitment_task' = Returned_Err("set_finalized_block_height")
            /\ item.kind = "Rejected"
                  => /\ finalized_block_height' = finalized_block_height
                     /\ commitment_task' = Running
            /\ item.kind = "Err"
                  => /\ finalized_block_height' = finalized_block_height
                     /\ commitment_task' = Returned_Err("stream")
       /\ ~TakesCommitmentEvent => finalized_block_height' = finalized_block_height
       /\ commitment_task.pc = "returned"
            => /\ ~TakesCommitmentEvent
               /\ commitment_task' = commitment_task
      ]_vars

\* The finalized height has been set by an Accepted item, a later item has
\* ended the task with an error, and an Accepted item of another height is
\* left on the stream.
C35_Witness ==
    /\ finalized_block_height \in Heights
    /\ commitment_task.pc = "returned"
    /\ commitment_task.ret = "Err"
    /\ commitment_events.queue # <<>>
    /\ Head(commitment_events.queue).kind = "Accepted"
    /\ Head(commitment_events.queue).height # finalized_block_height

(***************************************************************************)
(* The counter of transactions in flight.  fetch_update loads the counter, *)
(* applies its closure and stores the result with a compare-and-exchange,  *)
(* which it repeats with the value it found when the counter has changed   *)
(* in between.  Each task calls decrement_transactions_in_flight once.     *)
(***************************************************************************)
Increments == {i \in DOMAIN applied : applied[i].op = "increment"}

\* A transaction enters the pipeline: the counter is incremented.
IncrementInFlight ==
    /\ transactions_in_flight < MaxInFlight
    /\ Cardinality(Increments) < MaxInFlight
    /\ transactions_in_flight' = transactions_in_flight + 1
    /\ applied' = Append(applied, [op |-> "increment", count |-> 1, task |-> 0])
    /\ UNCHANGED decrements
    /\ UNCHANGED notCounterVars

\* decrement_transactions_in_flight(count): fetch_update loads the counter.
DecrementLoad ==
    /\ \E t \in Tasks, count \in DecrementCounts :
          /\ decrements[t] = Idle
          /\ decrements' = [decrements EXCEPT ![t] =
                                [pc |-> "compare_exchange", count |-> count,
                                 current |-> transactions_in_flight]]
    /\ UNCHANGED <<transactions_in_flight, applied>>
    /\ UNCHANGED notCounterVars

\* fetch_update: the compare-and-exchange of the value the closure returns.
DecrementCompareExchange ==
    /\ \E t \in Tasks :
          /\ decrements[t].pc = "compare_exchange"
          /\ IF transactions_in_flight = decrements[t].current
             THEN /\ transactions_in_flight' =
                        fetch_update_closure(decrements[t].current,
                                             decrements[t].count).value
                  /\ applied' = Append(applied, [op |-> "decrement",
                                                 count |-> decrements[t].count,
                                                 task |-> t])
                  /\ decrements' = [decrements EXCEPT ![t].pc = "done"]
             ELSE /\ decrements' = [decrements EXCEPT
                                       ![t].current = transactions_in_flight]
                  /\ UNCHANGED <<transactions_in_flight, applied>>
    /\ UNCHANGED notCounterVars

CounterNext ==
    \/ IncrementInFlight
    \/ DecrementLoad
    \/ DecrementCompareExchange

CounterSpec == Init /\ [][CounterNext]_vars

\* max(0, current - count)
MaxZero(n) == IF n < 0 THEN 0 ELSE n

\* The value of the counter after the updates of ops, applied one after
\* another to value.
RECURSIVE Sequentially(_, _)
Sequentially(value, ops) ==
    IF ops = <<>>
    THEN value
    ELSE Sequentially(IF Head(ops).op = "increment"
                      THEN value + 1
                      ELSE MaxZero(value - Head(ops).count),
                      Tail(ops))

\* C36: the counter never exceeds the number of transactions in flight, so
\* it never wraps below zero; its value is the one given by applying the
\* updates that have taken effect one after another, each decrement as
\* max(0, current - count); and every decrement that has returned has taken
\* effect exactly once.
C36_DecrementSaturatesAtomically ==
    /\ transactions_in_flight \in 0..MaxInFlight
    /\ transactions_in_flight = Sequentially(0, applied)
    /\ \A t \in Tasks :
          Cardinality({i \in DOMAIN applied : applied[i].task = t})
              = IF decrements[t].pc = "done" THEN 1 ELSE 0

\* Two concurrent decrements have both returned, the second after finding
\* that the counter had changed since it loaded it, and the last one asked
\* for more than was left: the counter is 0.
C36_Witness ==
    /\ \A t \in Tasks : decrements[t].pc = "done"
    /\ Len(applied) >= 2
    /\ applied[Len(applied)].op = "decrement"
    /\ applied[Len(applied) - 1].op = "decrement"
    /\ decrements[applied[Len(applied)].task].current
          = Sequentially(0, SubSeq(applied, 1, Len(applied) - 1))
    /\ applied[Len(applied)].count > decrements[applied[Len(applied)].task].current
    /\ decrements[applied[Len(applied)].task].current > 0
    /\ transactions_in_flight = 0

(***************************************************************************)
(* execute_test.  The clients run in parallel, one for each chunk of ids;  *)
(* a panic of a client or of execute_test ends the test.                   *)
(***************************************************************************)
\* init_test and the start of execute_test, for a configuration that
\* verify_config accepts: the chunks of ids are built.
ExecuteTestStart ==
    /\ test.pc = "not_started"
    /\ \E config \in ExecutionConfig :
          /\ verify_config(config)
          /\ LET nb_scenarios == IF config.kind.kind = "Load"
                                 THEN config.kind.nb_scenarios
                                 ELSE config.kind.max_scenarios
             IN IF config.nb_scenario_per_client = 0
                THEN test' = [pc |-> "panicked", config |-> config, panic |-> "chunks(0)"]
                ELSE LET chunks == Chunks(nb_scenarios, config.nb_scenario_per_client) IN
                     test' = [pc |-> "clients", config |-> config, chunks |-> chunks,
                              exec_results |-> [c \in DOMAIN chunks |-> NotRun]]
    /\ UNCHANGED notTestVars

\* One client runs its chunk: TestClient::new(chunk).run_scenarios(kind, ..)
ClientRunsScenarios ==
    /\ test.pc = "clients"
    /\ \E c \in DOMAIN test.chunks :
          /\ test.exec_results[c] = NotRun
          /\ \E completions \in IF test.config.kind.kind = "Load"
                                 THEN LoadCompletions(test.chunks[c])
                                 ELSE SoakCompletions(test.chunks[c]) :
                LET result == run_scenarios(test.chunks[c], test.config.kind,
                                            completions) IN
                IF result.panic # "none"
                THEN test' = [pc |-> "panicked", config |-> test.config,
                              panic |-> result.panic]
                ELSE test' = [test EXCEPT !.exec_results[c] = result]
    /\ UNCHANGED notTestVars

\* All clients have returned: execute_test averages their results.
ExecuteTestAverage ==
    /\ test.pc = "clients"
    /\ \A c \in DOMAIN test.chunks : test.exec_results[c] # NotRun
    /\ LET average == average_exec_time(test.exec_results) IN
       IF average.panic
       THEN test' = [pc |-> "panicked", config |-> test.config,
                     panic |-> "test average: division by zero"]
       ELSE test' = [pc |-> "done", config |-> test.config, chunks |-> test.chunks,
                     exec_results |-> test.exec_results,
                     average_exec_time |-> average.value]
    /\ UNCHANGED notTestVars

TestNext ==
    \/ ExecuteTestStart
    \/ ClientRunsScenarios
    \/ ExecuteTestAverage

TestSpec == Init /\ [][TestNext]_vars

\* The client in charge of scenario id: the one whose chunk holds it.
ClientOf(id) == CHOOSE c \in DOMAIN test.chunks : id \in ChunkIds(test.chunks[c])

\* C37: in a Soak test, once the client in charge of a scenario id among
\* the first min_scenarios has run, that scenario has been run in a loop.
C37_PermanentScenariosRun ==
    (test.pc \in {"clients", "done"} /\ test.config.kind.kind = "Soak")
        => \A id \in 1..test.config.kind.min_scenarios :
              test.exec_results[ClientOf(id)] # NotRun
                  => id \in test.exec_results[ClientOf(id)].looped

\* C38: neither the average of a client nor the average of the test divides
\* by zero.
C38_AverageNeverDividesByZero ==
    test.pc = "panicked"
        => test.panic \notin {"client average: division by zero",
                              "test average: division by zero"}

====
